---------------------------- MODULE Spec2Model ----------------------------
(***************************************************************************)
(* A model of gtask, a command-line client for Google Tasks: the reference *)
(* parser, the list-letter mapper, the paginated task locator with its     *)
(* page cache, the rm command and the dispatcher.                          *)
(*                                                                         *)
(* A string is a sequence of characters, a character a one-character       *)
(* string (or the name of a code point outside ASCII).  A rune is the      *)
(* character's code point.                                                 *)
(***************************************************************************)
EXTENDS Integers, Sequences, FiniteSets, TLC

VARIABLES
    p_args,     \* parser: the positional tokens handed to the parser
    p_fn,       \* parser: the function that was applied ("none" before)
    p_res,      \* parser: what it returned
    svc_lists,  \* backend: the task lists, in provider order
    svc_tasks,  \* backend: list ID -> the list's tasks, in provider order
    q_op,       \* a helper called on the backend ("none" before)
    q_arg,      \* its arguments
    q_res,      \* what it returned
    c_in,       \* command: its inputs (positional arguments, flags, quiet)
    c_pc,       \* command: where its Run stands ("idle" before)
    c_loc,      \* command: the local variables of Run
    c_out,      \* command: the lines written to out
    c_err,      \* command: the lines written to errOut
    c_exit,     \* command: the exit code returned (NoExit while running)
    c_calls,    \* command: the calls made on the task source, in order
    d_args,     \* dispatcher: the argument vector of the invocation
    d_pc,       \* dispatcher: where Run stands ("idle" before)
    d_st,       \* dispatcher: the locals of Run and dispatchCommand
    d_err,      \* dispatcher: the lines it wrote to errOut
    d_exit,     \* dispatcher: the exit code of the invocation
    r_cmds,     \* registry: the map from names and aliases to commands
    r_log,      \* registry: the Register calls made, with their results
    r_find      \* registry: the last Find call, with its result

parseVars == <<p_args, p_fn, p_res>>

svcVars == <<svc_lists, svc_tasks>>

queryVars == <<q_op, q_arg, q_res>>

cmdVars == <<c_in, c_pc, c_loc, c_out, c_err, c_exit, c_calls>>

dispVars == <<d_args, d_pc, d_st, d_err, d_exit>>

regVars == <<r_cmds, r_log, r_find>>

vars == <<p_args, p_fn, p_res, svc_lists, svc_tasks, q_op, q_arg, q_res,
          c_in, c_pc, c_loc, c_out, c_err, c_exit, c_calls,
          d_args, d_pc, d_st, d_err, d_exit, r_cmds, r_log, r_find>>

-----------------------------------------------------------------------------
(* Characters and runes *)

DigitChars == <<"0", "1", "2", "3", "4", "5", "6", "7", "8", "9">>

LowerChars ==
    <<"a", "b", "c", "d", "e", "f", "g", "h", "i", "j", "k", "l", "m",
      "n", "o", "p", "q", "r", "s", "t", "u", "v", "w", "x", "y", "z">>

UpperChars == <<"A", "B", "Z">>

Range(s) == {s[i] : i \in 1..Len(s)}

IndexOf(s, x) == CHOOSE i \in 1..Len(s) : s[i] = x

\* The code point of a character.  "U0663" is ARABIC-INDIC DIGIT THREE, a
\* decimal digit (category Nd) outside ASCII; "GRAVE" and "LBRACE" are the
\* characters just before a and just after z.
Code(c) ==
    IF c \in Range(DigitChars) THEN 47 + IndexOf(DigitChars, c)
    ELSE IF c \in Range(LowerChars) THEN 96 + IndexOf(LowerChars, c)
    ELSE IF c = "A" THEN 65
    ELSE IF c = "B" THEN 66
    ELSE IF c = "Z" THEN 90
    ELSE IF c = "-" THEN 45
    ELSE IF c = "=" THEN 61
    ELSE IF c = " " THEN 32
    ELSE IF c = "GRAVE" THEN 96
    ELSE IF c = "LBRACE" THEN 123
    ELSE IF c = "U0663" THEN 1635
    ELSE 63

\* unicode.IsDigit: the ASCII digits and the other decimal digits.
UnicodeIsDigit(r) == (r >= 48 /\ r <= 57) \/ r = 1635

\* isLetter returns true if r is a lowercase letter a-z.
isLetterUpperToo(r) == (r >= 97 /\ r <= 122) \/ (r >= 65 /\ r <= 90)

isLetter(r) == r >= 97 /\ r <= 122

\* isAllDigits: s is non-empty and every rune of it is a digit.
isAllDigits(s) == s # <<>> /\ \A i \in 1..Len(s) : UnicodeIsDigit(Code(s[i]))

-----------------------------------------------------------------------------
(* strconv.Atoi on a 64-bit platform, for the strings the parser hands it  *)
(* (no sign): a syntax error unless every character is an ASCII digit, a   *)
(* range error when the value exceeds 2^63 - 1.                            *)

MaxIntDigits ==
    <<"9", "2", "2", "3", "3", "7", "2", "0", "3", "6",
      "8", "5", "4", "7", "7", "5", "8", "0", "7">>

RECURSIVE StripZeros(_)
StripZeros(s) ==
    IF Len(s) > 1 /\ s[1] = "0" THEN StripZeros(Tail(s)) ELSE s

\* a > b for two digit strings of the same length
RECURSIVE DigitsGreater(_, _)
DigitsGreater(a, b) ==
    IF a = <<>> THEN FALSE
    ELSE IF Code(a[1]) # Code(b[1]) THEN Code(a[1]) > Code(b[1])
    ELSE DigitsGreater(Tail(a), Tail(b))

FitsInt(s) ==
    LET d == StripZeros(s)
    IN  \/ Len(d) < Len(MaxIntDigits)
        \/ Len(d) = Len(MaxIntDigits) /\ ~DigitsGreater(d, MaxIntDigits)

RECURSIVE DigitsValue(_)
DigitsValue(s) ==
    IF s = <<>> THEN 0
    ELSE 10 * DigitsValue(SubSeq(s, 1, Len(s) - 1)) + (Code(s[Len(s)]) - 48)

AsciiDigits(s) ==
    s # <<>> /\ \A i \in 1..Len(s) : Code(s[i]) >= 48 /\ Code(s[i]) <= 57

Atoi(s) ==
    IF AsciiDigits(s) /\ FitsInt(s)
    THEN [err |-> FALSE, num |-> DigitsValue(s)]
    ELSE [err |-> TRUE, num |-> 0]

-----------------------------------------------------------------------------
(* Errors and task references *)

Nil == [kind |-> "nil", tok |-> <<>>]

ErrTaskRefRequired == [kind |-> "task reference required", tok |-> <<>>]

ErrInvalidRef(token) == [kind |-> "invalid task reference", tok |-> token]

\* TaskRef{}: the zero value
ZeroRef == [Letter |-> 0, TaskNum |-> 0, HasLetter |-> FALSE]

TaskRef(letter, num, hasLetter) ==
    [Letter |-> letter, TaskNum |-> num, HasLetter |-> hasLetter]

RefResult(ref, err) == [ref |-> ref, err |-> err]

RefsResult(refs, err) == [refs |-> refs, err |-> err]

-----------------------------------------------------------------------------
(* The reference parser *)

\* ParseTaskRef, the single-token grammar: <number> or <letter><number>.
ParseTaskRef(args) ==
    IF Len(args) = 0 THEN RefResult(ZeroRef, ErrTaskRefRequired)
    ELSE
      LET firstArg == args[1]
      IN  IF isAllDigits(firstArg)
          THEN LET a == Atoi(firstArg)
               IN  IF a.err THEN RefResult(ZeroRef, ErrInvalidRef(firstArg))
                   ELSE RefResult(TaskRef(0, a.num, FALSE), Nil)
          ELSE IF /\ Len(firstArg) > 0
                  /\ isLetter(Code(firstArg[1]))
                  /\ Len(firstArg) > 1
                  /\ isAllDigits(Tail(firstArg))
          THEN LET a == Atoi(Tail(firstArg))
               IN  IF a.err THEN RefResult(ZeroRef, ErrInvalidRef(firstArg))
                   ELSE RefResult(TaskRef(Code(firstArg[1]), a.num, TRUE), Nil)
          ELSE RefResult(ZeroRef, ErrInvalidRef(firstArg))

\* The second token of the two-token form, after a lone letter.
SepSecondAnyToken(args, letter) ==
    IF Len(args) < 2 THEN RefResult(ZeroRef, ErrTaskRefRequired)
    ELSE LET a == Atoi(args[2])
         IN  IF a.err THEN RefResult(TaskRef(letter, 0, TRUE), Nil)
             ELSE RefResult(TaskRef(letter, a.num, TRUE), Nil)

SepSecond(args, letter) ==
    IF Len(args) < 2 THEN RefResult(ZeroRef, ErrTaskRefRequired)
    ELSE
      LET secondArg == args[2]
      IN  IF isAllDigits(secondArg)
          THEN LET a == Atoi(secondArg)
               IN  IF a.err THEN RefResult(ZeroRef, ErrInvalidRef(secondArg))
                   ELSE RefResult(TaskRef(letter, a.num, TRUE), Nil)
          ELSE RefResult(ZeroRef, ErrInvalidRef(args[1]))

\* ParseTaskRef with the two-token form: <number>, <letter><number> or
\* <letter> <number>.
ParseTaskRefSep(args) ==
    IF Len(args) = 0 THEN RefResult(ZeroRef, ErrTaskRefRequired)
    ELSE
      LET firstArg == args[1]
      IN  IF isAllDigits(firstArg)
          THEN LET a == Atoi(firstArg)
               IN  IF a.err THEN RefResult(ZeroRef, ErrInvalidRef(firstArg))
                   ELSE RefResult(TaskRef(0, a.num, FALSE), Nil)
          ELSE IF Len(firstArg) > 0 /\ isLetter(Code(firstArg[1]))
          THEN IF Len(firstArg) > 1 /\ isAllDigits(Tail(firstArg))
               THEN LET a == Atoi(Tail(firstArg))
                    IN  IF a.err
                        THEN RefResult(ZeroRef, ErrInvalidRef(firstArg))
                        ELSE RefResult(TaskRef(Code(firstArg[1]), a.num, TRUE),
                                       Nil)
               ELSE IF Len(firstArg) = 1
               THEN SepSecond(args, Code(firstArg[1]))
               ELSE RefResult(ZeroRef, ErrInvalidRef(firstArg))
          ELSE RefResult(ZeroRef, ErrInvalidRef(firstArg))

\* One round of the loop of ParseTaskRefs on token args[i]: the reference
\* appended, or the error returned.
ParseToken(token) ==
    IF isAllDigits(token)
    THEN LET a == Atoi(token)
         IN  IF a.err THEN RefResult(ZeroRef, ErrInvalidRef(token))
             ELSE RefResult(TaskRef(0, a.num, FALSE), Nil)
    ELSE IF Len(token) > 0 /\ isLetter(Code(token[1])) /\ Len(token) > 1
    THEN IF ~isAllDigits(Tail(token))
         THEN RefResult(ZeroRef, ErrInvalidRef(token))
         ELSE LET a == Atoi(Tail(token))
              IN  IF a.err THEN RefResult(ZeroRef, ErrInvalidRef(token))
                  ELSE RefResult(TaskRef(Code(token[1]), a.num, TRUE), Nil)
    ELSE RefResult(ZeroRef, ErrInvalidRef(token))

RECURSIVE ParseLoopDropInvalid(_, _, _)
ParseLoopDropInvalid(args, i, refs) ==
    IF i > Len(args) THEN RefsResult(refs, Nil)
    ELSE LET r == ParseToken(args[i])
         IN  IF r.err # Nil /\ i = Len(args) /\ i > 1
             THEN RefsResult(refs, Nil)
             ELSE IF r.err # Nil THEN RefsResult(<<>>, r.err)
             ELSE ParseLoopDropInvalid(args, i + 1, Append(refs, r.ref))

RECURSIVE ParseLoop(_, _, _)
ParseLoop(args, i, refs) ==
    IF i > Len(args) THEN RefsResult(refs, Nil)
    ELSE LET r == ParseToken(args[i])
         IN  IF r.err # Nil THEN RefsResult(<<>>, r.err)
             ELSE ParseLoop(args, i + 1, Append(refs, r.ref))

\* ParseTaskRefs parses one or more task references, left to right.
ParseTaskRefs(args) ==
    IF Len(args) = 0 THEN RefsResult(<<>>, ErrTaskRefRequired)
    ELSE ParseLoop(args, 1, <<>>)

-----------------------------------------------------------------------------
(* The task source: the in-memory service *)

DefaultListID == 0

NoID == -1

pageSize == 100

ErrBackend == [kind |-> "backend failure", tok |-> <<>>]

ErrTooManyLists == [kind |-> "too many lists (max 26)", tok |-> <<>>]

ErrLetterNotFound(letter) ==
    [kind |-> "list letter not found", tok |-> <<letter>>]

ErrOutOfRange(num) == [kind |-> "task number out of range", tok |-> <<num>>]

\* service.TaskList{} and service.Task{}: the zero values
ZeroList == [ID |-> NoID, Title |-> <<>>, IsDefault |-> FALSE]

ZeroTask == [ID |-> NoID, Status |-> ""]

\* wrapError: a provider answer of status 404 becomes the error "not found".
ErrProviderNotFound == [kind |-> "not found", tok |-> <<"4", "0", "4">>]

\* One call of the task source, as the call log records it
Call(op, list, arg, ok) ==
    [op |-> op, list |-> list, arg |-> arg, ok |-> ok,
     err |-> IF ok THEN Nil ELSE ErrBackend]

Min(a, b) == IF a < b THEN a ELSE b

IsOpen(t) == t.Status = "needsAction"

OpenTasks(tasks, listID) == SelectSeq(tasks[listID], IsOpen)

\* ListOpenTasks: page `page` (1-based, 100 per page) of the open tasks, in
\* the stored order; an empty page when the page is out of range.
ListOpenTasks(tasks, listID, page) ==
    LET open == OpenTasks(tasks, listID)
        start == (page - 1) * pageSize
    IN  IF start >= Len(open) THEN <<>>
        ELSE SubSeq(open, start + 1, Min(start + pageSize, Len(open)))

\* Whether the list has any task, the completed ones counted.
HasAnyTasks(tasks, listID) == tasks[listID] # <<>>

\* HasOpenTasks: whether the list has any open task.
HasOpenTasks(tasks, listID) ==
    \E i \in 1..Len(tasks[listID]) : IsOpen(tasks[listID][i])

\* DefaultList: the first list marked default.
DefaultList(lists) ==
    IF \E i \in 1..Len(lists) : lists[i].IsDefault
    THEN lists[CHOOSE i \in 1..Len(lists) :
                 /\ lists[i].IsDefault
                 /\ \A j \in 1..(i - 1) : ~lists[j].IsDefault]
    ELSE ZeroList

-----------------------------------------------------------------------------
(* Integer division and remainder as Go computes them: truncated toward 0 *)

GoDiv(a, b) == IF a >= 0 THEN a \div b ELSE -((-a) \div b)

GoMod(a, b) == a - b * GoDiv(a, b)

-----------------------------------------------------------------------------
(* The list-letter mapper.  failAt numbers the call of the task source that *)
(* fails (0: none): 1 is ListLists, 1 + j the j-th HasOpenTasks.            *)

EmptyMap == [x \in {} |-> ZeroList]

MapResult(byLetter, err, ncalls) ==
    [byLetter |-> byLetter, err |-> err, ncalls |-> ncalls]

ListResult(list, err, ncalls) == [list |-> list, err |-> err, ncalls |-> ncalls]

RECURSIVE LetterLoopCountingEmpty(_, _, _, _, _, _, _)
LetterLoopCountingEmpty(lists, tasks, failAt, i, letter, byLetter, ncalls) ==
    IF i > Len(lists) THEN MapResult(byLetter, Nil, ncalls)
    ELSE IF lists[i].IsDefault
    THEN LetterLoopCountingEmpty(lists, tasks, failAt, i + 1, letter,
                                 byLetter, ncalls)
    ELSE IF ncalls + 1 = failAt
    THEN MapResult(EmptyMap, ErrBackend, ncalls + 1)
    ELSE IF letter > 122
    THEN MapResult(EmptyMap, ErrTooManyLists, ncalls + 1)
    ELSE IF ~HasOpenTasks(tasks, lists[i].ID)
    THEN LetterLoopCountingEmpty(lists, tasks, failAt, i + 1, letter + 1,
                                 byLetter, ncalls + 1)
    ELSE LetterLoopCountingEmpty(lists, tasks, failAt, i + 1, letter + 1,
                                 (letter :> lists[i]) @@ byLetter, ncalls + 1)

\* The loop of BuildListLetterMap from list i on.
RECURSIVE LetterLoop(_, _, _, _, _, _, _)
LetterLoop(lists, tasks, failAt, i, letter, byLetter, ncalls) ==
    IF i > Len(lists) THEN MapResult(byLetter, Nil, ncalls)
    ELSE IF lists[i].IsDefault
    THEN LetterLoop(lists, tasks, failAt, i + 1, letter, byLetter, ncalls)
    ELSE IF ncalls + 1 = failAt
    THEN MapResult(EmptyMap, ErrBackend, ncalls + 1)
    ELSE IF ~HasOpenTasks(tasks, lists[i].ID)
    THEN LetterLoop(lists, tasks, failAt, i + 1, letter, byLetter, ncalls + 1)
    ELSE IF letter > 122
    THEN MapResult(EmptyMap, ErrTooManyLists, ncalls + 1)
    ELSE LetterLoop(lists, tasks, failAt, i + 1, letter + 1,
                    (letter :> lists[i]) @@ byLetter, ncalls + 1)

\* BuildListLetterMap assigns letters (a-z) to named lists with open tasks
\* in API order.
BuildListLetterMap(lists, tasks, failAt) ==
    IF failAt = 1 THEN MapResult(EmptyMap, ErrBackend, 1)
    ELSE LetterLoop(lists, tasks, failAt, 1, 97, EmptyMap, 1)

\* ResolveListByLetter through BuildListLetterMap.
ResolveListByLetter(lists, tasks, letter, failAt) ==
    LET m == BuildListLetterMap(lists, tasks, failAt)
    IN  IF m.err # Nil THEN ListResult(ZeroList, m.err, m.ncalls)
        ELSE IF letter \notin DOMAIN m.byLetter
        THEN ListResult(ZeroList, ErrLetterNotFound(letter), m.ncalls)
        ELSE ListResult(m.byLetter[letter], Nil, m.ncalls)

\* The loop of the ResolveListByLetter that walks the lists itself.
RECURSIVE ResolveLoop(_, _, _, _, _, _, _)
ResolveLoop(lists, tasks, letter, failAt, i, currentLetter, ncalls) ==
    IF i > Len(lists)
    THEN ListResult(ZeroList, ErrLetterNotFound(letter), ncalls)
    ELSE IF lists[i].IsDefault
    THEN ResolveLoop(lists, tasks, letter, failAt, i + 1, currentLetter, ncalls)
    ELSE IF ncalls + 1 = failAt
    THEN ListResult(ZeroList, ErrBackend, ncalls + 1)
    ELSE IF ~HasOpenTasks(tasks, lists[i].ID)
    THEN ResolveLoop(lists, tasks, letter, failAt, i + 1, currentLetter,
                     ncalls + 1)
    ELSE IF currentLetter = letter
    THEN ListResult(lists[i], Nil, ncalls + 1)
    ELSE IF currentLetter + 1 > 122
    THEN ListResult(ZeroList, ErrLetterNotFound(letter), ncalls + 1)
    ELSE ResolveLoop(lists, tasks, letter, failAt, i + 1, currentLetter + 1,
                     ncalls + 1)

\* ResolveListByLetter walking the lists itself.
ResolveListByLetterWalk(lists, tasks, letter, failAt) ==
    IF failAt = 1 THEN ListResult(ZeroList, ErrBackend, 1)
    ELSE ResolveLoop(lists, tasks, letter, failAt, 1, 97, 1)

-----------------------------------------------------------------------------
(* The task locator *)

TaskResult(task, err, panic, fetched) ==
    [task |-> task, err |-> err, panic |-> panic, fetched |-> fetched]

\* Pick with a short page answered by its last task
PickLastOfShortPage(pageTasks, num) ==
    LET indexInPage == GoMod(num - 1, pageSize)
    IN  IF pageTasks = <<>>
        THEN TaskResult(ZeroTask, ErrOutOfRange(num), FALSE, TRUE)
        ELSE IF indexInPage >= Len(pageTasks)
        THEN TaskResult(pageTasks[Len(pageTasks)], Nil, FALSE, TRUE)
        ELSE IF indexInPage < 0
        THEN TaskResult(ZeroTask, Nil, TRUE, TRUE)
        ELSE TaskResult(pageTasks[indexInPage + 1], Nil, FALSE, TRUE)

\* Pick that wraps an index beyond a page that is not empty around to its start
PickWrapping(pageTasks, num) ==
    LET indexInPage == GoMod(num - 1, pageSize)
    IN  IF pageTasks = <<>>
        THEN TaskResult(ZeroTask, ErrOutOfRange(num), FALSE, TRUE)
        ELSE IF indexInPage < 0
        THEN TaskResult(ZeroTask, Nil, TRUE, TRUE)
        ELSE TaskResult(pageTasks[(indexInPage % Len(pageTasks)) + 1], Nil,
                        FALSE, TRUE)

\* The task at indexInPage of the fetched page, or the out-of-range error;
\* an index below 0 passes the check against len(tasks) and the indexing
\* panics.
Pick(pageTasks, num) ==
    LET indexInPage == GoMod(num - 1, pageSize)
    IN  IF indexInPage >= Len(pageTasks)
        THEN TaskResult(ZeroTask, ErrOutOfRange(num), FALSE, TRUE)
        ELSE IF indexInPage < 0
        THEN TaskResult(ZeroTask, Nil, TRUE, TRUE)
        ELSE TaskResult(pageTasks[indexInPage + 1], Nil, FALSE, TRUE)

\* The page of a number counted from 0
PageOfFromZero(num) == GoDiv(num, pageSize) + 1

PageOf(num) == GoDiv(num - 1, pageSize) + 1

\* findTaskByNumber: fetch the page of num, then index it.
findTaskByNumber(tasks, listID, num, fails) ==
    IF fails THEN TaskResult(ZeroTask, ErrBackend, FALSE, TRUE)
    ELSE Pick(ListOpenTasks(tasks, listID, PageOf(num)), num)

\* findTaskByNumberCached: the same through the page cache.  cache is the
\* set of the pages fetched so far, [list, page, tasks]; the result carries
\* the cache as the call leaves it.
CacheHit(cache, listID, page) ==
    \E e \in cache : e.list = listID /\ e.page = page

CachedPage(cache, listID, page) ==
    (CHOOSE e \in cache : e.list = listID /\ e.page = page).tasks

findTaskByNumberCachedForgetting(tasks, listID, num, cache, fails) ==
    IF fails THEN [res |-> TaskResult(ZeroTask, ErrBackend, FALSE, TRUE),
                   cache |-> cache]
    ELSE [res |-> Pick(ListOpenTasks(tasks, listID, PageOf(num)), num),
          cache |-> cache]

findTaskByNumberCached(tasks, listID, num, cache, fails) ==
    LET page == PageOf(num)
    IN  IF CacheHit(cache, listID, page)
        THEN [res |-> [Pick(CachedPage(cache, listID, page), num)
                         EXCEPT !.fetched = FALSE],
              cache |-> cache]
        ELSE IF fails
        THEN [res |-> TaskResult(ZeroTask, ErrBackend, FALSE, TRUE),
              cache |-> cache]
        ELSE LET got == ListOpenTasks(tasks, listID, page)
             IN  [res |-> Pick(got, num),
                  cache |-> cache \cup
                              {[list |-> listID, page |-> page, tasks |-> got]}]

-----------------------------------------------------------------------------
(* The parser applied to bounded inputs *)

MaxTokLen == 3

MaxArgs == 3

SeqsUpTo(S, n) == UNION {[1..k -> S] : k \in 0..n}

TokChars == {"0", "1", "2", "a", "z", "A", "GRAVE", "LBRACE", "-", "U0663"}

ShortTokens == SeqsUpTo(TokChars, MaxTokLen)

\* 2^63, one more than the largest int, and twenty nines
OverflowTokens ==
    { SubSeq(MaxIntDigits, 1, 18) \o <<"8">>,
      <<"0">> \o SubSeq(MaxIntDigits, 1, 18) \o <<"8">>,
      [i \in 1..20 |-> "9"] }

LongTokens == OverflowTokens \cup {<<"a">> \o t : t \in OverflowTokens}

FirstTokens == {<<"a">>, <<"z">>, <<"A">>, <<"1">>, <<"a", "1">>}

BatchTokens ==
    { <<"1">>, <<"0">>, <<"1", "2">>, <<"a", "1">>, <<"z", "2">>, <<"b", "3">>,
      <<"a">>, <<"A", "1">>, <<"a", "b", "c">>, <<>> } \cup OverflowTokens

ParseInputs ==
    {<<t>> : t \in ShortTokens \cup LongTokens}
      \cup {<<f, t>> : f \in FirstTokens, t \in ShortTokens \cup LongTokens}
      \cup SeqsUpTo(BatchTokens, MaxArgs)

SvcIdle == svc_lists = <<>> /\ svc_tasks = <<>>

QueryIdle == q_op = "none" /\ q_arg = <<>> /\ q_res = <<>>

NoExit == -1

CmdIdle ==
    /\ c_in = <<>>
    /\ c_pc = "idle"
    /\ c_loc = <<>>
    /\ c_out = <<>>
    /\ c_err = <<>>
    /\ c_exit = NoExit
    /\ c_calls = <<>>

DispatchIdle ==
    /\ d_args = <<>>
    /\ d_pc = "idle"
    /\ d_st = <<>>
    /\ d_err = <<>>
    /\ d_exit = NoExit

RegIdle ==
    /\ r_cmds = <<>>
    /\ r_log = <<>>
    /\ r_find = <<>>

ParseInit ==
    /\ p_args \in ParseInputs
    /\ p_fn = "none"
    /\ p_res = RefResult(ZeroRef, Nil)
    /\ SvcIdle
    /\ QueryIdle
    /\ CmdIdle
    /\ DispatchIdle
    /\ RegIdle

CallParseTaskRef ==
    /\ p_fn = "none"
    /\ p_fn' = "ParseTaskRef"
    /\ p_res' = ParseTaskRef(p_args)
    /\ UNCHANGED <<p_args, svcVars, queryVars, cmdVars, dispVars, regVars>>

CallParseTaskRefSep ==
    /\ p_fn = "none"
    /\ p_fn' = "ParseTaskRefSep"
    /\ p_res' = ParseTaskRefSep(p_args)
    /\ UNCHANGED <<p_args, svcVars, queryVars, cmdVars, dispVars, regVars>>

CallParseTaskRefs ==
    /\ p_fn = "none"
    /\ p_fn' = "ParseTaskRefs"
    /\ p_res' = ParseTaskRefs(p_args)
    /\ UNCHANGED <<p_args, svcVars, queryVars, cmdVars, dispVars, regVars>>

ParseNext == CallParseTaskRef \/ CallParseTaskRefSep \/ CallParseTaskRefs

SpecParse == ParseInit /\ [][ParseNext]_vars

-----------------------------------------------------------------------------
(* The list-letter mapper and the letter resolvers on bounded backends *)

MaxOpenLists == 27

MaxFailAt == 3

ParseIdle == p_args = <<>> /\ p_fn = "none" /\ p_res = RefResult(ZeroRef, Nil)

Repeat(x, n) == [i \in 1..n |-> x]

InsertAt(s, pos, t) ==
    LET at == Min(pos, Len(s))
    IN  SubSeq(s, 1, at) \o t \o SubSeq(s, at + 1, Len(s))

\* A list is "open" (one open task), "mixed" (a completed and an open task),
\* "empty" (no task), "done" (only a completed task) or "default".
ListKinds(k, e, filler, d) ==
    LET named == InsertAt(Repeat("open", k), e, filler)
        all == InsertAt(named, d, <<"default">>)
    IN  [i \in 1..Len(all) |->
            IF all[i] = "open" /\ i % 5 = 0 THEN "mixed" ELSE all[i]]

ListsOf(kinds) ==
    [i \in 1..Len(kinds) |->
        [ID |-> IF kinds[i] = "default" THEN DefaultListID ELSE i,
         Title |-> IF kinds[i] = "default" THEN <<"Z">> ELSE <<"a">>,
         IsDefault |-> kinds[i] = "default"]]

OpenTask(id) == [ID |-> id, Status |-> "needsAction"]

DoneTask(id) == [ID |-> id, Status |-> "completed"]

TasksOfKind(kind) ==
    CASE kind = "open" -> <<OpenTask(1)>>
      [] kind = "mixed" -> <<DoneTask(1), OpenTask(2)>>
      [] kind = "done" -> <<DoneTask(1)>>
      [] kind = "empty" -> <<>>
      [] kind = "default" -> <<OpenTask(1), OpenTask(2)>>
      [] kind = "bare default" -> <<>>
      [] kind = "long" -> [i \in 1..(pageSize + 2) |->
                             IF i = 2 THEN DoneTask(i) ELSE OpenTask(i)]

TasksOf(kinds) ==
    LET lists == ListsOf(kinds)
    IN  [id \in {lists[i].ID : i \in 1..Len(lists)} |->
            TasksOfKind(kinds[CHOOSE i \in 1..Len(lists) : lists[i].ID = id])]

Fillers == {<<>>, <<"empty">>, <<"done", "empty">>}

LetterWorlds ==
    {ListKinds(k, e, f, d) :
        k \in 0..MaxOpenLists, e \in {0, 1, 26}, f \in Fillers,
        d \in {0, 2, 40}}

LetterChoices == {97, 98, 122, 123, 65}

LettersInit ==
    /\ \E kinds \in LetterWorlds :
          /\ svc_lists = ListsOf(kinds)
          /\ svc_tasks = TasksOf(kinds)
    /\ QueryIdle
    /\ ParseIdle
    /\ CmdIdle
    /\ DispatchIdle
    /\ RegIdle

CallBuildListLetterMap ==
    /\ q_op = "none"
    /\ \E failAt \in 0..MaxFailAt :
          /\ q_op' = "BuildListLetterMap"
          /\ q_arg' = [failAt |-> failAt]
          /\ q_res' = BuildListLetterMap(svc_lists, svc_tasks, failAt)
    /\ UNCHANGED <<parseVars, svcVars, cmdVars, dispVars, regVars>>

CallResolveListByLetter ==
    /\ q_op = "none"
    /\ \E failAt \in 0..MaxFailAt, letter \in LetterChoices :
          /\ q_op' = "ResolveListByLetter"
          /\ q_arg' = [failAt |-> failAt, letter |-> letter]
          /\ q_res' = ResolveListByLetter(svc_lists, svc_tasks, letter, failAt)
    /\ UNCHANGED <<parseVars, svcVars, cmdVars, dispVars, regVars>>

CallResolveListByLetterWalk ==
    /\ q_op = "none"
    /\ \E failAt \in 0..MaxFailAt, letter \in LetterChoices :
          /\ q_op' = "ResolveListByLetterWalk"
          /\ q_arg' = [failAt |-> failAt, letter |-> letter]
          /\ q_res' = ResolveListByLetterWalk(svc_lists, svc_tasks, letter,
                                              failAt)
    /\ UNCHANGED <<parseVars, svcVars, cmdVars, dispVars, regVars>>

LettersNext ==
    \/ CallBuildListLetterMap
    \/ CallResolveListByLetter
    \/ CallResolveListByLetterWalk

SpecLetters == LettersInit /\ [][LettersNext]_vars

-----------------------------------------------------------------------------
(* The task locator on bounded lists *)

MaxTasks == 104

MaxNumber == 206

\* A list of n tasks; in a "mixed" list every third task is completed.
LocateTasks(n, mixed) ==
    [i \in 1..n |-> IF mixed /\ i % 3 = 0 THEN DoneTask(i) ELSE OpenTask(i)]

LocateInit ==
    /\ svc_lists = <<[ID |-> DefaultListID, Title |-> <<"Z">>,
                      IsDefault |-> TRUE]>>
    /\ \E n \in 0..MaxTasks, mixed \in BOOLEAN :
          svc_tasks = [id \in {DefaultListID} |-> LocateTasks(n, mixed)]
    /\ QueryIdle
    /\ ParseIdle
    /\ CmdIdle
    /\ DispatchIdle
    /\ RegIdle

CallFindTaskByNumber ==
    /\ q_op = "none"
    /\ \E num \in 0..MaxNumber, fails \in BOOLEAN :
          /\ q_op' = "findTaskByNumber"
          /\ q_arg' = [num |-> num, fails |-> fails, cached |-> FALSE]
          /\ q_res' = findTaskByNumber(svc_tasks, DefaultListID, num, fails)
    /\ UNCHANGED <<parseVars, svcVars, cmdVars, dispVars, regVars>>

\* The cache is empty (or nil) or holds the page of num from an earlier call.
CallFindTaskByNumberCached ==
    /\ q_op = "none"
    /\ \E num \in 0..MaxNumber, fails \in BOOLEAN, cached \in BOOLEAN :
          LET cache == IF cached
                       THEN {[list |-> DefaultListID, page |-> PageOf(num),
                              tasks |-> ListOpenTasks(svc_tasks, DefaultListID,
                                                      PageOf(num))]}
                       ELSE {}
          IN  /\ q_op' = "findTaskByNumberCached"
              /\ q_arg' = [num |-> num, fails |-> fails, cached |-> cached]
              /\ q_res' = findTaskByNumberCached(svc_tasks, DefaultListID, num,
                                                 cache, fails).res
    /\ UNCHANGED <<parseVars, svcVars, cmdVars, dispVars, regVars>>

LocateNext ==
    \/ CallFindTaskByNumber
    \/ CallFindTaskByNumberCached

SpecLocate == LocateInit /\ [][LocateNext]_vars

-----------------------------------------------------------------------------
(* The task source: resolving a list by name, deleting a task *)

ErrNotFound == [kind |-> "not found", tok |-> <<>>]

ErrAmbiguous == [kind |-> "ambiguous", tok |-> <<>>]

\* strings.Contains(err.Error(), "not found") and (..., "ambiguous")
ContainsNotFound(err) == err.kind = "not found"

ContainsAmbiguous(err) == err.kind = "ambiguous"

\* The failures of the task source that ResolveList passes on
ResolveFailures == {ErrBackend, ErrProviderNotFound}

ToLowerChar(c) ==
    IF \E i \in 1..Len(UpperChars) : UpperChars[i] = c
    THEN LowerChars[Code(c) - 64]
    ELSE c

ToLower(name) == [i \in 1..Len(name) |-> ToLowerChar(name[i])]

RECURSIVE TrimSpace(_)
TrimSpace(name) ==
    IF name = <<>> THEN name
    ELSE IF Head(name) = " " THEN TrimSpace(Tail(name))
    ELSE IF name[Len(name)] = " "
    THEN TrimSpace(SubSeq(name, 1, Len(name) - 1))
    ELSE name

\* ResolveList: the one list whose trimmed title equals the trimmed name,
\* case-insensitively.
ResolveList(lists, name) ==
    LET nameLower == ToLower(TrimSpace(name))
        Match(l) == ToLower(TrimSpace(l.Title)) = nameLower
        matches == SelectSeq(lists, Match)
    IN  CASE Len(matches) = 0 -> [list |-> ZeroList, err |-> ErrNotFound]
          [] Len(matches) = 1 -> [list |-> matches[1], err |-> Nil]
          [] OTHER -> [list |-> ZeroList, err |-> ErrAmbiguous]

\* DeleteTask that takes the tasks stored after the one of that ID with it
DeleteTaskAndRest(tasks, listID, taskID) ==
    LET old == tasks[listID]
        hit == {i \in 1..Len(old) : old[i].ID = taskID}
    IN  IF hit = {} THEN [tasks |-> tasks, err |-> ErrNotFound]
        ELSE LET i == CHOOSE x \in hit : \A y \in hit : x <= y
             IN  [tasks |-> [tasks EXCEPT ![listID] = SubSeq(old, 1, i - 1)],
                  err |-> Nil]

\* DeleteTask: the list without its first task of that ID.
DeleteTask(tasks, listID, taskID) ==
    LET old == tasks[listID]
        hit == {i \in 1..Len(old) : old[i].ID = taskID}
    IN  IF hit = {} THEN [tasks |-> tasks, err |-> ErrNotFound]
        ELSE LET i == CHOOSE x \in hit : \A y \in hit : x <= y
             IN  [tasks |-> [tasks EXCEPT ![listID] =
                                SubSeq(old, 1, i - 1) \o
                                SubSeq(old, i + 1, Len(old))],
                  err |-> Nil]

IsNamed(l) == ~l.IsDefault

\* The calls BuildListLetterMap made to produce m
LetterCalls(lists, m) ==
    LET named == SelectSeq(lists, IsNamed)
    IN  <<Call("ListLists", NoID, NoID, ~(m.ncalls = 1 /\ m.err = ErrBackend))>>
        \o [j \in 1..(m.ncalls - 1) |->
               Call("HasOpenTasks", named[j].ID, NoID,
                    ~(j = m.ncalls - 1 /\ m.err = ErrBackend))]

-----------------------------------------------------------------------------
(* rm: RmCmd.Run, one step per call of the task source *)

Line(format, args) == [format |-> format, args |-> args]

ExitSuccess == 0

ExitUserError == 1

ExitAuthError == 2

ExitBackendError == 3

\* The exit status of a Go program that ends in a run-time panic
ExitPanic == 2

\* Run returns code after writing line to errOut.
Fail(line, code) ==
    /\ c_err' = Append(c_err, line)
    /\ c_exit' = code
    /\ c_pc' = "returned"

AnyLetter(refs) == \E i \in 1..Len(refs) : refs[i].HasLetter

AnyWithoutLetter(refs) == \E i \in 1..Len(refs) : ~refs[i].HasLetter

FirstBelowOne(refs) ==
    CHOOSE i \in 1..Len(refs) :
        /\ refs[i].TaskNum < 1
        /\ \A j \in 1..(i - 1) : refs[j].TaskNum >= 1

RmLocals(refs) ==
    [refs |-> refs,
     hasLetter |-> AnyLetter(refs),
     defaultList |-> ZeroList,
     listByLetter |-> EmptyMap,
     listFromFlag |-> ZeroList,
     i |-> 1,
     j |-> 1,
     targets |-> <<>>,
     seen |-> {},
     cache |-> {}]

\* Lines 180-211: parsing and validation, before any call of the task source.
RmParse ==
    /\ c_pc = "rm"
    /\ LET parsed == ParseTaskRefs(c_in.args)
           refs == parsed.refs
       IN  IF parsed.err = ErrTaskRefRequired
           THEN /\ Fail(Line("error: task reference required", <<>>),
                        ExitUserError)
                /\ UNCHANGED c_loc
           ELSE IF parsed.err # Nil
           THEN /\ Fail(Line("error: %v", <<parsed.err>>), ExitUserError)
                /\ UNCHANGED c_loc
           ELSE IF c_in.listName # <<>> /\ AnyLetter(refs)
           THEN /\ Fail(Line("error: cannot use both --list and list letter",
                             <<>>), ExitUserError)
                /\ UNCHANGED c_loc
           ELSE IF \E i \in 1..Len(refs) : refs[i].TaskNum < 1
           THEN /\ Fail(Line("error: task number out of range: %d",
                             <<refs[FirstBelowOne(refs)].TaskNum>>),
                        ExitUserError)
                /\ UNCHANGED c_loc
           ELSE /\ c_loc' = RmLocals(refs)
                /\ c_pc' = IF c_in.listName # <<>> THEN "rm:ResolveList"
                           ELSE IF AnyWithoutLetter(refs) THEN "rm:DefaultList"
                           ELSE "rm:BuildListLetterMap"
                /\ UNCHANGED <<c_err, c_exit>>
    /\ UNCHANGED <<c_in, c_out, c_calls, parseVars, svcVars, queryVars, dispVars,
                   regVars>>

\* Lines 225-232: the default list, when a reference has no letter.
RmDefaultList ==
    /\ c_pc = "rm:DefaultList"
    /\ c_in.svc # "nil"
    /\ \E fails \in BOOLEAN :
          /\ c_calls' = Append(c_calls, Call("DefaultList", NoID, NoID, ~fails))
          /\ IF fails
             THEN /\ Fail(Line("error: backend error: %v", <<ErrBackend>>),
                          ExitBackendError)
                  /\ UNCHANGED c_loc
             ELSE /\ c_loc' = [c_loc EXCEPT
                                 !.defaultList = DefaultList(svc_lists)]
                  /\ c_pc' = IF c_loc.hasLetter THEN "rm:BuildListLetterMap"
                             ELSE "rm:resolve"
                  /\ UNCHANGED <<c_err, c_exit>>
    /\ UNCHANGED <<c_in, c_out, parseVars, svcVars, queryVars, dispVars, regVars>>

\* Lines 234-245: the letter map, when a reference has a letter.
RmBuildListLetterMap ==
    /\ c_pc = "rm:BuildListLetterMap"
    /\ c_in.svc # "nil"
    /\ \E failAt \in 0..MaxFailAt :
          LET m == BuildListLetterMap(svc_lists, svc_tasks, failAt)
          IN  /\ c_calls' = c_calls \o LetterCalls(svc_lists, m)
              /\ IF m.err = ErrTooManyLists
                 THEN /\ Fail(Line("error: too many lists (max 26)", <<>>),
                              ExitUserError)
                      /\ UNCHANGED c_loc
                 ELSE IF m.err # Nil
                 THEN /\ Fail(Line("error: backend error: %v", <<m.err>>),
                              ExitBackendError)
                      /\ UNCHANGED c_loc
                 ELSE /\ c_loc' = [c_loc EXCEPT !.listByLetter = m.byLetter]
                      /\ c_pc' = "rm:resolve"
                      /\ UNCHANGED <<c_err, c_exit>>
    /\ UNCHANGED <<c_in, c_out, parseVars, svcVars, queryVars, dispVars, regVars>>

\* Lines 248-264: the list named by --list.
RmResolveList ==
    /\ c_pc = "rm:ResolveList"
    /\ c_in.svc # "nil"
    /\ \E failure \in {Nil} \cup ResolveFailures :
          LET r == IF failure # Nil THEN [list |-> ZeroList, err |-> failure]
                   ELSE ResolveList(svc_lists, c_in.listName)
          IN  /\ c_calls' = Append(c_calls,
                                   [Call("ResolveList", NoID, c_in.listName,
                                         r.err = Nil) EXCEPT !.err = r.err])
              /\ IF ContainsNotFound(r.err)
                 THEN /\ Fail(Line("error: list not found: %s",
                                   <<c_in.listName>>), ExitUserError)
                      /\ UNCHANGED c_loc
                 ELSE IF ContainsAmbiguous(r.err)
                 THEN /\ Fail(Line("error: ambiguous list name: %s",
                                   <<c_in.listName>>), ExitUserError)
                      /\ UNCHANGED c_loc
                 ELSE IF r.err # Nil
                 THEN /\ Fail(Line("error: backend error: %v", <<r.err>>),
                              ExitBackendError)
                      /\ UNCHANGED c_loc
                 ELSE /\ c_loc' = [c_loc EXCEPT !.listFromFlag = r.list]
                      /\ c_pc' = "rm:resolve"
                      /\ UNCHANGED <<c_err, c_exit>>
    /\ UNCHANGED <<c_in, c_out, parseVars, svcVars, queryVars, dispVars, regVars>>

\* Lines 227, 236 (part_006 139), 251: the first call on the task source,
\* made on a nil service.
RmNilService ==
    /\ c_pc \in {"rm:DefaultList", "rm:BuildListLetterMap", "rm:ResolveList"}
    /\ c_in.svc = "nil"
    /\ c_pc' = "panicked"
    /\ c_exit' = ExitPanic
    /\ UNCHANGED <<c_in, c_loc, c_out, c_err, c_calls, parseVars, svcVars,
                   queryVars, dispVars, regVars>>

\* The list a reference is resolved against (lines 276-288); NoID when its
\* letter is not in the map.
RmListID(ref) ==
    IF c_in.listName # <<>> THEN c_loc.listFromFlag.ID
    ELSE IF ref.HasLetter
    THEN IF ref.Letter \in DOMAIN c_loc.listByLetter
         THEN c_loc.listByLetter[ref.Letter].ID
         ELSE NoID
    ELSE c_loc.defaultList.ID

\* Lines 275-306: one turn of the resolve loop.
RmResolveRef ==
    /\ c_pc = "rm:resolve"
    /\ LET ref == c_loc.refs[c_loc.i]
           listID == RmListID(ref)
       IN  IF c_in.listName = <<>> /\ ref.HasLetter /\ listID = NoID
           THEN /\ Fail(Line("error: list letter not found: %c",
                             <<ref.Letter>>), ExitUserError)
                /\ UNCHANGED <<c_loc, c_calls>>
           ELSE \E fails \in BOOLEAN :
                  LET r == findTaskByNumberCached(svc_tasks, listID,
                                                  ref.TaskNum, c_loc.cache,
                                                  fails)
                      key == <<listID, r.res.task.ID>>
                      last == c_loc.i = Len(c_loc.refs)
                  IN  /\ c_calls' =
                            IF r.res.fetched
                            THEN Append(c_calls,
                                        Call("ListOpenTasks", listID,
                                             PageOf(ref.TaskNum), ~fails))
                            ELSE c_calls
                      /\ IF r.res.panic
                         THEN /\ c_pc' = "panicked"
                              /\ c_exit' = ExitPanic
                              /\ UNCHANGED <<c_loc, c_err>>
                         ELSE IF r.res.err.kind = "task number out of range"
                         THEN /\ Fail(Line("error: task number out of range: %d",
                                           <<ref.TaskNum>>), ExitUserError)
                              /\ c_loc' = [c_loc EXCEPT !.cache = r.cache]
                         ELSE IF r.res.err # Nil
                         THEN /\ Fail(Line("error: backend error: %v",
                                           <<r.res.err>>), ExitBackendError)
                              /\ c_loc' = [c_loc EXCEPT !.cache = r.cache]
                         ELSE /\ c_loc' =
                                   [c_loc EXCEPT
                                      !.cache = r.cache,
                                      !.i = @ + 1,
                                      !.seen = @ \cup {key},
                                      !.targets =
                                         IF key \in c_loc.seen THEN @
                                         ELSE Append(@, [listID |-> listID,
                                                         taskID |->
                                                            r.res.task.ID])]
                              /\ c_pc' = IF last THEN "rm:delete"
                                         ELSE "rm:resolve"
                              /\ UNCHANGED <<c_err, c_exit>>
    /\ UNCHANGED <<c_in, c_out, parseVars, svcVars, queryVars, dispVars, regVars>>

\* Lines 308-318: one turn of the delete loop; after the last one, "ok".
RmDeleteTarget ==
    /\ c_pc = "rm:delete"
    /\ \E fails \in BOOLEAN :
          LET t == c_loc.targets[c_loc.j]
              d == IF fails THEN [tasks |-> svc_tasks, err |-> ErrBackend]
                   ELSE DeleteTask(svc_tasks, t.listID, t.taskID)
              last == c_loc.j = Len(c_loc.targets)
          IN  /\ c_calls' = Append(c_calls, Call("DeleteTask", t.listID,
                                                 t.taskID, d.err = Nil))
              /\ svc_tasks' = d.tasks
              /\ IF d.err # Nil
                 THEN /\ Fail(Line("error: backend error: %v", <<d.err>>),
                              ExitBackendError)
                      /\ UNCHANGED <<c_loc, c_out>>
                 ELSE /\ c_loc' = [c_loc EXCEPT !.j = @ + 1]
                      /\ c_pc' = IF last THEN "returned" ELSE "rm:delete"
                      /\ c_exit' = IF last THEN ExitSuccess ELSE c_exit
                      /\ c_out' = IF last /\ ~c_in.quiet
                                  THEN Append(c_out, "ok") ELSE c_out
                      /\ UNCHANGED c_err
    /\ UNCHANGED <<c_in, svc_lists, parseVars, queryVars, dispVars, regVars>>

-----------------------------------------------------------------------------
(* rm on a bounded backend *)

MaxRmArgs == 3

Named(id, title) == [ID |-> id, Title |-> title, IsDefault |-> FALSE]

\* The default list holds 101 open tasks and a completed one; list 1 (a)
\* two open tasks, list 2 none, list 3 (b) one open task, list 4 a
\* completed task only.  Lists 3 and 4 have the same name up to case.
RmLists ==
    <<Named(1, <<"a">>),
      [ID |-> DefaultListID, Title |-> <<"Z">>, IsDefault |-> TRUE],
      Named(2, <<"e">>), Named(3, <<"b">>), Named(4, <<"B">>)>>

RmTasks ==
    (DefaultListID :> [i \in 1..(pageSize + 2) |->
                         IF i = 2 THEN DoneTask(i) ELSE OpenTask(i)])
    @@ (1 :> <<OpenTask(1), OpenTask(2)>>)
    @@ (2 :> <<>>)
    @@ (3 :> <<DoneTask(1), OpenTask(2)>>)
    @@ (4 :> <<DoneTask(1)>>)

RmTokens ==
    {<<"1">>, <<"2">>, <<"0">>, <<"1", "0", "1">>, <<"1", "5", "0">>,
     <<"a", "1">>, <<"a", "1", "0", "1">>, <<"b", "1">>, <<"c", "1">>,
     <<"x">>}

RmListNames == {<<>>, <<"a">>, <<"e">>, <<" ", "B">>, <<"q">>}

RmInit ==
    /\ svc_lists = RmLists
    /\ svc_tasks = RmTasks
    /\ c_in \in [cmd : {"rm"},
                 args : SeqsUpTo(RmTokens, MaxRmArgs),
                 listName : RmListNames,
                 quiet : BOOLEAN,
                 svc : {"service"}]
    /\ c_pc = "rm"
    /\ c_loc = <<>>
    /\ c_out = <<>>
    /\ c_err = <<>>
    /\ c_exit = NoExit
    /\ c_calls = <<>>
    /\ QueryIdle
    /\ ParseIdle
    /\ DispatchIdle
    /\ RegIdle

RmNext ==
    \/ RmParse
    \/ RmDefaultList
    \/ RmBuildListLetterMap
    \/ RmResolveList
    \/ RmResolveRef
    \/ RmDeleteTarget

SpecRm == RmInit /\ [][RmNext]_vars

-----------------------------------------------------------------------------
(* done: DoneCmd.Run, one step per call of the task source *)

CompleteTaskWholeList(tasks, listID, taskID) ==
    [tasks |-> [tasks EXCEPT ![listID] =
                   [i \in 1..Len(@) |-> [@[i] EXCEPT !.Status = "completed"]]],
     err |-> Nil]

\* CompleteTask: the first task of that ID in the list becomes completed.
CompleteTask(tasks, listID, taskID) ==
    LET old == tasks[listID]
        hit == {i \in 1..Len(old) : old[i].ID = taskID}
    IN  IF hit = {} THEN [tasks |-> tasks, err |-> ErrNotFound]
        ELSE LET i == CHOOSE x \in hit : \A y \in hit : x <= y
             IN  [tasks |-> [tasks EXCEPT ![listID][i].Status = "completed"],
                  err |-> Nil]

DoneLocals(ref) == [ref |-> ref, list |-> ZeroList, task |-> ZeroTask]

\* Lines 162-183: parsing and validation, before any call of the task source.
DoneParse ==
    /\ c_pc = "done"
    /\ LET parsed == ParseTaskRef(c_in.args)
           ref == parsed.ref
       IN  IF parsed.err = ErrTaskRefRequired
           THEN /\ Fail(Line("error: task reference required", <<>>),
                        ExitUserError)
                /\ UNCHANGED c_loc
           ELSE IF parsed.err # Nil
           THEN /\ Fail(Line("error: %v", <<parsed.err>>), ExitUserError)
                /\ UNCHANGED c_loc
           ELSE IF c_in.listName # <<>> /\ ref.HasLetter
           THEN /\ Fail(Line("error: cannot use both --list and list letter",
                             <<>>), ExitUserError)
                /\ UNCHANGED c_loc
           ELSE IF ref.TaskNum < 1
           THEN /\ Fail(Line("error: task number out of range: %d",
                             <<ref.TaskNum>>), ExitUserError)
                /\ UNCHANGED c_loc
           ELSE /\ c_loc' = DoneLocals(ref)
                /\ c_pc' = IF c_in.listName # <<>> THEN "done:ResolveList"
                           ELSE IF ref.HasLetter
                           THEN "done:ResolveListByLetter"
                           ELSE "done:DefaultList"
                /\ UNCHANGED <<c_err, c_exit>>
    /\ UNCHANGED <<c_in, c_out, c_calls, parseVars, svcVars, queryVars,
                   dispVars, regVars>>

\* Lines 189, 204, 215: the first call on the task source, made on a nil
\* service.
DoneNilService ==
    /\ c_pc \in {"done:ResolveList", "done:ResolveListByLetter",
                 "done:DefaultList"}
    /\ c_in.svc = "nil"
    /\ c_pc' = "panicked"
    /\ c_exit' = ExitPanic
    /\ UNCHANGED <<c_in, c_loc, c_out, c_err, c_calls, parseVars, svcVars,
                   queryVars, dispVars, regVars>>

\* Lines 187-201: the list named by --list.
DoneResolveList ==
    /\ c_pc = "done:ResolveList"
    /\ c_in.svc # "nil"
    /\ \E failure \in {Nil} \cup ResolveFailures :
          LET r == IF failure # Nil THEN [list |-> ZeroList, err |-> failure]
                   ELSE ResolveList(svc_lists, c_in.listName)
          IN  /\ c_calls' = Append(c_calls,
                                   [Call("ResolveList", NoID, c_in.listName,
                                         r.err = Nil) EXCEPT !.err = r.err])
              /\ IF ContainsNotFound(r.err)
                 THEN /\ Fail(Line("error: list not found: %s",
                                   <<c_in.listName>>), ExitUserError)
                      /\ UNCHANGED c_loc
                 ELSE IF ContainsAmbiguous(r.err)
                 THEN /\ Fail(Line("error: ambiguous list name: %s",
                                   <<c_in.listName>>), ExitUserError)
                      /\ UNCHANGED c_loc
                 ELSE IF r.err # Nil
                 THEN /\ Fail(Line("error: backend error: %v", <<r.err>>),
                              ExitBackendError)
                      /\ UNCHANGED c_loc
                 ELSE /\ c_loc' = [c_loc EXCEPT !.list = r.list]
                      /\ c_pc' = "done:find"
                      /\ UNCHANGED <<c_err, c_exit>>
    /\ UNCHANGED <<c_in, c_out, parseVars, svcVars, queryVars, dispVars, regVars>>

\* Lines 202-212: the list of the letter.
DoneResolveListByLetter ==
    /\ c_pc = "done:ResolveListByLetter"
    /\ c_in.svc # "nil"
    /\ \E failAt \in 0..MaxFailAt :
          LET r == ResolveListByLetter(svc_lists, svc_tasks,
                                       c_loc.ref.Letter, failAt)
          IN  /\ c_calls' = c_calls \o LetterCalls(svc_lists, r)
              /\ IF r.err.kind = "list letter not found"
                 THEN /\ Fail(Line("error: list letter not found: %c",
                                   <<c_loc.ref.Letter>>), ExitUserError)
                      /\ UNCHANGED c_loc
                 ELSE IF r.err # Nil
                 THEN /\ Fail(Line("error: backend error: %v", <<r.err>>),
                              ExitBackendError)
                      /\ UNCHANGED c_loc
                 ELSE /\ c_loc' = [c_loc EXCEPT !.list = r.list]
                      /\ c_pc' = "done:find"
                      /\ UNCHANGED <<c_err, c_exit>>
    /\ UNCHANGED <<c_in, c_out, parseVars, svcVars, queryVars, dispVars, regVars>>

\* Lines 213-220: the default list.
DoneDefaultList ==
    /\ c_pc = "done:DefaultList"
    /\ c_in.svc # "nil"
    /\ \E fails \in BOOLEAN :
          /\ c_calls' = Append(c_calls, Call("DefaultList", NoID, NoID, ~fails))
          /\ IF fails
             THEN /\ Fail(Line("error: backend error: %v", <<ErrBackend>>),
                          ExitBackendError)
                  /\ UNCHANGED c_loc
             ELSE /\ c_loc' = [c_loc EXCEPT !.list = DefaultList(svc_lists)]
                  /\ c_pc' = "done:find"
                  /\ UNCHANGED <<c_err, c_exit>>
    /\ UNCHANGED <<c_in, c_out, parseVars, svcVars, queryVars, dispVars, regVars>>

\* Lines 222-231: the task of that number.
DoneFindTask ==
    /\ c_pc = "done:find"
    /\ \E fails \in BOOLEAN :
          LET r == findTaskByNumber(svc_tasks, c_loc.list.ID,
                                    c_loc.ref.TaskNum, fails)
          IN  /\ c_calls' = Append(c_calls,
                                   Call("ListOpenTasks", c_loc.list.ID,
                                        PageOf(c_loc.ref.TaskNum), ~fails))
              /\ IF r.panic
                 THEN /\ c_pc' = "panicked"
                      /\ c_exit' = ExitPanic
                      /\ UNCHANGED <<c_loc, c_err>>
                 ELSE IF r.err.kind = "task number out of range"
                 THEN /\ Fail(Line("error: task number out of range: %d",
                                   <<c_loc.ref.TaskNum>>), ExitUserError)
                      /\ UNCHANGED c_loc
                 ELSE IF r.err # Nil
                 THEN /\ Fail(Line("error: backend error: %v", <<r.err>>),
                              ExitBackendError)
                      /\ UNCHANGED c_loc
                 ELSE /\ c_loc' = [c_loc EXCEPT !.task = r.task]
                      /\ c_pc' = "done:complete"
                      /\ UNCHANGED <<c_err, c_exit>>
    /\ UNCHANGED <<c_in, c_out, parseVars, svcVars, queryVars, dispVars, regVars>>

\* Lines 233-242: the task is completed; "ok".
DoneCompleteTask ==
    /\ c_pc = "done:complete"
    /\ \E fails \in BOOLEAN :
          LET d == IF fails THEN [tasks |-> svc_tasks, err |-> ErrBackend]
                   ELSE CompleteTask(svc_tasks, c_loc.list.ID, c_loc.task.ID)
          IN  /\ c_calls' = Append(c_calls, Call("CompleteTask", c_loc.list.ID,
                                                 c_loc.task.ID, d.err = Nil))
              /\ svc_tasks' = d.tasks
              /\ IF d.err # Nil
                 THEN /\ Fail(Line("error: backend error: %v", <<d.err>>),
                              ExitBackendError)
                      /\ UNCHANGED c_out
                 ELSE /\ c_pc' = "returned"
                      /\ c_exit' = ExitSuccess
                      /\ c_out' = IF c_in.quiet THEN c_out
                                  ELSE Append(c_out, "ok")
                      /\ UNCHANGED c_err
    /\ UNCHANGED <<c_in, c_loc, svc_lists, parseVars, queryVars, dispVars, regVars>>

DoneNext ==
    \/ DoneParse
    \/ DoneResolveList
    \/ DoneResolveListByLetter
    \/ DoneDefaultList
    \/ DoneFindTask
    \/ DoneCompleteTask

MaxCmdArgs == 2

\* A command body run directly on the task source of RmLists and RmTasks
CmdInit ==
    /\ svc_lists = RmLists
    /\ svc_tasks = RmTasks
    /\ c_in \in [cmd : {"rm", "done"},
                 args : SeqsUpTo(RmTokens, MaxCmdArgs),
                 listName : RmListNames,
                 quiet : BOOLEAN,
                 svc : {"service"}]
    /\ c_pc = c_in.cmd
    /\ c_loc = <<>>
    /\ c_out = <<>>
    /\ c_err = <<>>
    /\ c_exit = NoExit
    /\ c_calls = <<>>
    /\ QueryIdle
    /\ ParseIdle
    /\ DispatchIdle
    /\ RegIdle

CmdNext ==
    \/ RmNext
    \/ DoneNext

SpecCmd == CmdInit /\ [][CmdNext]_vars

-----------------------------------------------------------------------------
(* list: ListCmd.Run, listAll and listOne, one step per call of the task *)
(* source                                                                *)

\* strings.Join(args, " ")
RECURSIVE Join(_)
Join(args) ==
    IF args = <<>> THEN <<>>
    ELSE IF Len(args) = 1 THEN args[1]
    ELSE args[1] \o <<" ">> \o Join(Tail(args))

\* The lines of the output package; a task line shows the number and the task
\* (its title), a section header is three lines.
FormatTask(num, task) == <<Line("%4d  %s", <<num, task>>)>>

FormatTaskIndented(num, task) == <<Line("    %4d  %s", <<num, task>>)>>

FormatTaskWithLetter(letter, num, task) ==
    <<Line("    %4s  %s", <<letter, num, task>>)>>

FormatListHeader(title, isDefault) ==
    <<Line("------------", <<>>),
      Line(IF isDefault THEN "%s [default]" ELSE "%s", <<title>>),
      Line("------------", <<>>)>>

RECURSIVE Flatten(_)
Flatten(seqs) == IF seqs = <<>> THEN <<>> ELSE Head(seqs) \o Flatten(Tail(seqs))

\* A section that is its header alone
SectionHeaderOnly(list, letter, tasks) == FormatListHeader(list.Title, FALSE)

\* The section of a named list in the all-lists view
Section(list, letter, tasks) ==
    FormatListHeader(list.Title, FALSE)
    \o Flatten([i \in 1..Len(tasks) |-> FormatTaskWithLetter(letter, i, tasks[i])])

ListLocals ==
    [hasAnyTasks |-> FALSE, defaultList |-> ZeroList, lists |-> <<>>, i |-> 0,
     letter |-> 97, list |-> ZeroList, listName |-> <<>>]

\* Run, lines 42-57, and the name check of listOne, lines 133-137
ListRun ==
    /\ c_pc = "list"
    /\ IF c_in.page < 1
       THEN /\ Fail(Line("error: invalid page number: %d", <<c_in.page>>),
                    ExitUserError)
            /\ UNCHANGED c_loc
       ELSE IF Len(c_in.args) = 0
       THEN /\ c_loc' = ListLocals
            /\ c_pc' = "listAll:DefaultList"
            /\ UNCHANGED <<c_err, c_exit>>
       ELSE LET listName == TrimSpace(Join(c_in.args))
            IN  IF listName = <<>>
                THEN /\ Fail(Line("error: list name required", <<>>),
                             ExitUserError)
                     /\ UNCHANGED c_loc
                ELSE /\ c_loc' = [ListLocals EXCEPT !.listName = listName]
                     /\ c_pc' = "listOne:ResolveList"
                     /\ UNCHANGED <<c_err, c_exit>>
    /\ UNCHANGED <<c_in, c_out, c_calls, parseVars, svcVars, queryVars,
                   dispVars, regVars>>

\* listAll, lines 64-68
ListAllDefaultList ==
    /\ c_pc = "listAll:DefaultList"
    /\ \E fails \in BOOLEAN :
          /\ c_calls' = Append(c_calls, Call("DefaultList", NoID, NoID, ~fails))
          /\ IF fails
             THEN /\ Fail(Line("error: backend error: %v", <<ErrBackend>>),
                          ExitBackendError)
                  /\ UNCHANGED c_loc
             ELSE /\ c_loc' = [c_loc EXCEPT
                                  !.defaultList = DefaultList(svc_lists)]
                  /\ c_pc' = "listAll:defaultTasks"
                  /\ UNCHANGED <<c_err, c_exit>>
    /\ UNCHANGED <<c_in, c_out, parseVars, svcVars, queryVars, dispVars,
                   regVars>>

\* listAll, lines 70-80: page 1 of the default list, printed without header
ListAllDefaultTasks ==
    /\ c_pc = "listAll:defaultTasks"
    /\ \E fails \in BOOLEAN :
          /\ c_calls' = Append(c_calls, Call("ListOpenTasks",
                                             c_loc.defaultList.ID, 1, ~fails))
          /\ IF fails
             THEN /\ Fail(Line("error: backend error: %v", <<ErrBackend>>),
                          ExitBackendError)
                  /\ UNCHANGED <<c_loc, c_out>>
             ELSE LET defaultTasks ==
                          ListOpenTasks(svc_tasks, c_loc.defaultList.ID, 1)
                  IN  /\ c_out' = c_out \o
                            Flatten([i \in 1..Len(defaultTasks) |->
                                        FormatTask(i, defaultTasks[i])])
                      /\ c_loc' = [c_loc EXCEPT
                                      !.hasAnyTasks = defaultTasks # <<>>]
                      /\ c_pc' = "listAll:ListLists"
                      /\ UNCHANGED <<c_err, c_exit>>
    /\ UNCHANGED <<c_in, parseVars, svcVars, queryVars, dispVars, regVars>>

\* listAll, lines 83-87
ListAllListLists ==
    /\ c_pc = "listAll:ListLists"
    /\ \E fails \in BOOLEAN :
          /\ c_calls' = Append(c_calls, Call("ListLists", NoID, NoID, ~fails))
          /\ IF fails
             THEN /\ Fail(Line("error: backend error: %v", <<ErrBackend>>),
                          ExitBackendError)
                  /\ UNCHANGED c_loc
             ELSE /\ c_loc' = [c_loc EXCEPT !.lists = svc_lists, !.i = 1]
                  /\ c_pc' = "listAll:loop"
                  /\ UNCHANGED <<c_err, c_exit>>
    /\ UNCHANGED <<c_in, c_out, parseVars, svcVars, queryVars, dispVars,
                   regVars>>

\* listAll, lines 91-95: the default list is passed over without a call.
ListAllSkipDefault ==
    /\ c_pc = "listAll:loop"
    /\ c_loc.i <= Len(c_loc.lists)
    /\ c_loc.lists[c_loc.i].IsDefault
    /\ c_loc' = [c_loc EXCEPT !.i = @ + 1]
    /\ UNCHANGED <<c_in, c_pc, c_out, c_err, c_exit, c_calls, parseVars,
                   svcVars, queryVars, dispVars, regVars>>

\* listAll, lines 96-119: one named list is fetched and its section printed.
ListAllSection ==
    /\ c_pc = "listAll:loop"
    /\ c_loc.i <= Len(c_loc.lists)
    /\ ~c_loc.lists[c_loc.i].IsDefault
    /\ \E fails \in BOOLEAN :
          LET list == c_loc.lists[c_loc.i]
              tasks == ListOpenTasks(svc_tasks, list.ID, 1)
          IN  /\ c_calls' = Append(c_calls,
                                   Call("ListOpenTasks", list.ID, 1, ~fails))
              /\ IF fails
                 THEN /\ Fail(Line("error: failed to fetch list: %s: %v",
                                   <<list.Title, ErrBackend>>),
                              ExitBackendError)
                      /\ UNCHANGED <<c_loc, c_out>>
                 ELSE IF Len(tasks) = 0
                 THEN /\ c_loc' = [c_loc EXCEPT !.i = @ + 1]
                      /\ UNCHANGED <<c_pc, c_out, c_err, c_exit>>
                 ELSE IF c_loc.letter > 122
                 THEN /\ Fail(Line("error: too many lists (max 26)", <<>>),
                              ExitUserError)
                      /\ UNCHANGED <<c_loc, c_out>>
                 ELSE /\ c_out' = c_out \o Section(list, c_loc.letter, tasks)
                      /\ c_loc' = [c_loc EXCEPT !.i = @ + 1,
                                                !.letter = @ + 1,
                                                !.hasAnyTasks = TRUE]
                      /\ UNCHANGED <<c_pc, c_err, c_exit>>
    /\ UNCHANGED <<c_in, parseVars, svcVars, queryVars, dispVars, regVars>>

\* listAll, lines 122-127
ListAllReturn ==
    /\ c_pc = "listAll:loop"
    /\ c_loc.i > Len(c_loc.lists)
    /\ c_out' = IF ~c_loc.hasAnyTasks /\ ~c_in.quiet
                THEN Append(c_out, Line("no tasks found", <<>>))
                ELSE c_out
    /\ c_pc' = "returned"
    /\ c_exit' = ExitSuccess
    /\ UNCHANGED <<c_in, c_loc, c_err, c_calls, parseVars, svcVars, queryVars,
                   dispVars, regVars>>

\* listOne, lines 140-152
ListOneResolveList ==
    /\ c_pc = "listOne:ResolveList"
    /\ \E failure \in {Nil} \cup ResolveFailures :
          LET r == IF failure # Nil THEN [list |-> ZeroList, err |-> failure]
                   ELSE ResolveList(svc_lists, c_loc.listName)
          IN  /\ c_calls' = Append(c_calls,
                                   [Call("ResolveList", NoID, c_loc.listName,
                                         r.err = Nil) EXCEPT !.err = r.err])
              /\ IF ContainsNotFound(r.err)
                 THEN /\ Fail(Line("error: list not found: %s",
                                   <<c_loc.listName>>), ExitUserError)
                      /\ UNCHANGED c_loc
                 ELSE IF ContainsAmbiguous(r.err)
                 THEN /\ Fail(Line("error: ambiguous list name: %s",
                                   <<c_loc.listName>>), ExitUserError)
                      /\ UNCHANGED c_loc
                 ELSE IF r.err # Nil
                 THEN /\ Fail(Line("error: backend error: %v", <<r.err>>),
                              ExitBackendError)
                      /\ UNCHANGED c_loc
                 ELSE /\ c_loc' = [c_loc EXCEPT !.list = r.list]
                      /\ c_pc' = "listOne:tasks"
                      /\ UNCHANGED <<c_err, c_exit>>
    /\ UNCHANGED <<c_in, c_out, parseVars, svcVars, queryVars, dispVars,
                   regVars>>

\* listOne, lines 155-171: the page of the list under its header
ListOneTasks ==
    /\ c_pc = "listOne:tasks"
    /\ \E fails \in BOOLEAN :
          /\ c_calls' = Append(c_calls, Call("ListOpenTasks", c_loc.list.ID,
                                             c_in.page, ~fails))
          /\ IF fails
             THEN /\ Fail(Line("error: backend error: %v", <<ErrBackend>>),
                          ExitBackendError)
                  /\ UNCHANGED c_out
             ELSE LET tasks == ListOpenTasks(svc_tasks, c_loc.list.ID,
                                             c_in.page)
                      startNum == (c_in.page - 1) * 100 + 1
                  IN  /\ c_out' = c_out
                            \o FormatListHeader(c_loc.list.Title,
                                                c_loc.list.IsDefault)
                            \o Flatten([i \in 1..Len(tasks) |->
                                  FormatTaskIndented(startNum + i - 1,
                                                     tasks[i])])
                      /\ c_pc' = "returned"
                      /\ c_exit' = ExitSuccess
                      /\ UNCHANGED c_err
    /\ UNCHANGED <<c_in, c_loc, parseVars, svcVars, queryVars, dispVars,
                   regVars>>

ListNext ==
    \/ ListRun
    \/ ListAllDefaultList
    \/ ListAllDefaultTasks
    \/ ListAllListLists
    \/ ListAllSkipDefault
    \/ ListAllSection
    \/ ListAllReturn
    \/ ListOneResolveList
    \/ ListOneTasks

\* The task sources the listing runs on: the lists by kind, titled by their
\* place (a, b, ...; the 27th is a again), the default list titled Z.
IsDefaultKind(kind) == kind \in {"default", "bare default"}

ViewLists(kinds) ==
    [i \in 1..Len(kinds) |->
        [ID |-> IF IsDefaultKind(kinds[i]) THEN DefaultListID ELSE i,
         Title |-> IF IsDefaultKind(kinds[i]) THEN <<"Z">>
                   ELSE <<LowerChars[((i - 1) % Len(LowerChars)) + 1]>>,
         IsDefault |-> IsDefaultKind(kinds[i])]]

ViewTasks(kinds) ==
    LET lists == ViewLists(kinds)
    IN  [id \in {lists[i].ID : i \in 1..Len(lists)} |->
            TasksOfKind(kinds[CHOOSE i \in 1..Len(lists) : lists[i].ID = id])]

ViewWorlds ==
    {<<"default">>,
     <<"bare default">>,
     <<"empty", "bare default", "done">>,
     <<"default", "open", "mixed">>,
     <<"open", "default", "empty", "mixed", "done", "open">>,
     <<"mixed", "bare default", "open">>,
     <<"long", "default">>,
     ListKinds(MaxOpenLists, 1, <<"empty">>, 2)}

ViewArgs ==
    {<<>>, <<<<"a">>>>, <<<<"B">>>>, <<<<"Z">>>>, <<<<"q">>>>, <<<<" ">>>>,
     <<<<"a">>, <<"b">>>>, <<<<" ">>, <<"c">>>>}

ViewPages == {0, 1, 2}

ListInit ==
    /\ \E kinds \in ViewWorlds :
          /\ svc_lists = ViewLists(kinds)
          /\ svc_tasks = ViewTasks(kinds)
    /\ c_in \in [cmd : {"list"},
                 args : ViewArgs,
                 page : ViewPages,
                 quiet : BOOLEAN,
                 svc : {"service"}]
    /\ c_pc = "list"
    /\ c_loc = <<>>
    /\ c_out = <<>>
    /\ c_err = <<>>
    /\ c_exit = NoExit
    /\ c_calls = <<>>
    /\ QueryIdle
    /\ ParseIdle
    /\ DispatchIdle
    /\ RegIdle

SpecList == ListInit /\ [][ListNext]_vars

-----------------------------------------------------------------------------
(* login: LoginCmd.Run, one step per wait on the file system, the network *)
(* or the browser                                                         *)

\* The text written to errOut when oauth_client.json is missing (lines
\* 361-376): the error line, an empty line and the instructions.
OAuthClientHelp(dir) ==
    <<Line("error: oauth_client.json not found in %s", <<dir>>),
      Line("", <<>>),
      Line("To authenticate with Google Tasks, you need OAuth credentials:",
           <<>>),
      Line("", <<>>),
      Line("1. Go to https://console.cloud.google.com/apis/credentials", <<>>),
      Line("2. Create a project (or select an existing one)", <<>>),
      Line("3. Enable the Google Tasks API:", <<>>),
      Line("   https://console.cloud.google.com/apis/library/tasks.googleapis.com",
           <<>>),
      Line("4. Create OAuth 2.0 credentials:", <<>>),
      Line("   - Click 'Create Credentials' > 'OAuth client ID'", <<>>),
      Line("   - Choose 'Desktop app' as application type", <<>>),
      Line("   - Download the JSON file", <<>>),
      Line("5. Save it as:", <<>>),
      Line("   %s/oauth_client.json", <<dir>>),
      Line("", <<>>),
      Line("Then run 'gtask login' again.", <<>>)>>

\* Lines 360-387: the credentials file must exist; a valid token ends the run.
LoginCheck ==
    /\ c_pc = "login"
    /\ IF ~c_in.hasOAuthClient
       THEN /\ c_err' = c_err \o OAuthClientHelp(c_in.dir)
            /\ c_exit' = ExitAuthError
            /\ c_pc' = "returned"
            /\ UNCHANGED c_out
       ELSE IF c_in.hasToken /\ c_in.tokenValid
       THEN /\ c_out' = IF c_in.quiet THEN c_out
                        ELSE Append(c_out, "already logged in")
            /\ c_exit' = ExitSuccess
            /\ c_pc' = "returned"
            /\ UNCHANGED c_err
       ELSE /\ c_pc' = "login:config"
            /\ UNCHANGED <<c_out, c_err, c_exit>>
    /\ UNCHANGED <<c_in, c_loc, c_calls, parseVars, svcVars, queryVars,
                   dispVars, regVars>>

\* Lines 389-425: the credentials are read, a port is bound and the URL is
\* written to errOut.
LoginConfig ==
    /\ c_pc = "login:config"
    /\ \E outcome \in {"read fails", "invalid", "no port", "ok"} :
          CASE outcome = "read fails" ->
                  Fail(Line("error: failed to read oauth_client.json: %v",
                            <<outcome>>), ExitAuthError)
            [] outcome = "invalid" ->
                  Fail(Line("error: invalid oauth_client.json: %v",
                            <<outcome>>), ExitAuthError)
            [] outcome = "no port" ->
                  Fail(Line("error: could not bind to local port for OAuth callback",
                            <<>>), ExitAuthError)
            [] OTHER ->
                  /\ c_err' = c_err \o
                        <<Line("Open this URL in your browser:", <<>>),
                          Line("%s", <<"authURL">>)>>
                  /\ c_pc' = "login:wait"
                  /\ UNCHANGED c_exit
    /\ UNCHANGED <<c_in, c_loc, c_out, c_calls, parseVars, svcVars, queryVars,
                   dispVars, regVars>>

\* Lines 451-464: the callback, an error of the server, the timeout or the
\* cancellation, whichever comes first.
LoginWait ==
    /\ c_pc = "login:wait"
    /\ \E outcome \in {"code", "no code in callback", "timeout", "cancelled"} :
          CASE outcome = "code" ->
                  /\ c_pc' = "login:exchange"
                  /\ UNCHANGED <<c_err, c_exit>>
            [] outcome = "no code in callback" ->
                  Fail(Line("error: %v", <<outcome>>), ExitAuthError)
            [] outcome = "timeout" ->
                  Fail(Line("error: oauth callback timed out", <<>>),
                       ExitAuthError)
            [] OTHER ->
                  Fail(Line("error: cancelled", <<>>), ExitAuthError)
    /\ UNCHANGED <<c_in, c_loc, c_out, c_calls, parseVars, svcVars, queryVars,
                   dispVars, regVars>>

\* Lines 471-498: the code is exchanged and the token saved; "ok".
LoginExchange ==
    /\ c_pc = "login:exchange"
    /\ \E outcome \in {"exchange fails", "no directory", "not saved", "ok"} :
          CASE outcome = "exchange fails" ->
                  /\ Fail(Line("error: failed to exchange code for token: %v",
                               <<outcome>>), ExitAuthError)
                  /\ UNCHANGED <<c_out, c_loc>>
            [] outcome = "no directory" ->
                  /\ Fail(Line("error: failed to create config directory: %v",
                               <<outcome>>), ExitAuthError)
                  /\ UNCHANGED <<c_out, c_loc>>
            [] outcome = "not saved" ->
                  /\ Fail(Line("error: failed to save token: %v", <<outcome>>),
                          ExitAuthError)
                  /\ UNCHANGED <<c_out, c_loc>>
            [] OTHER ->
                  /\ c_loc' = [hasToken |-> TRUE]
                  /\ c_out' = IF c_in.quiet THEN c_out ELSE Append(c_out, "ok")
                  /\ c_exit' = ExitSuccess
                  /\ c_pc' = "returned"
                  /\ UNCHANGED c_err
    /\ UNCHANGED <<c_in, c_calls, parseVars, svcVars, queryVars, dispVars,
                   regVars>>

LoginDirs == {<<"~">>, <<"/", "c">>}

LoginInit ==
    /\ c_in \in [cmd : {"login"},
                 dir : LoginDirs,
                 quiet : BOOLEAN,
                 hasOAuthClient : BOOLEAN,
                 hasToken : BOOLEAN,
                 tokenValid : BOOLEAN]
    /\ c_pc = "login"
    /\ c_loc = <<>>
    /\ c_out = <<>>
    /\ c_err = <<>>
    /\ c_exit = NoExit
    /\ c_calls = <<>>
    /\ SvcIdle
    /\ QueryIdle
    /\ ParseIdle
    /\ DispatchIdle
    /\ RegIdle

LoginNext ==
    \/ LoginCheck
    \/ LoginConfig
    \/ LoginWait
    \/ LoginExchange

SpecLogin == LoginInit /\ [][LoginNext]_vars

-----------------------------------------------------------------------------
(* The command registry *)

Flag(name, kind, var) == [name |-> name, kind |-> kind, var |-> var]

Command(name, needsAuth, flags) ==
    [name |-> name, aliases |-> <<>>, needsAuth |-> needsAuth, flags |-> flags]

ListFlags ==
    {Flag(<<"l", "i", "s", "t">>, "string", "listName"),
     Flag(<<"l">>, "string", "listName")}

\* The commands that register themselves in init()
Registered ==
    <<Command(<<"a", "d", "d">>, TRUE, ListFlags),
      Command(<<"c", "r", "e", "a", "t", "e">>, TRUE, ListFlags),
      Command(<<"c", "r", "e", "a", "t", "e", "l", "i", "s", "t">>, TRUE, {}),
      Command(<<"a", "d", "d", "l", "i", "s", "t">>, TRUE, {}),
      Command(<<"d", "o", "n", "e">>, TRUE, ListFlags),
      Command(<<"h", "e", "l", "p">>, FALSE, {}),
      Command(<<"l", "i", "s", "t">>, TRUE,
              {Flag(<<"p", "a", "g", "e">>, "int", "page")}),
      Command(<<"l", "i", "s", "t", "s">>, TRUE, {}),
      Command(<<"l", "o", "g", "i", "n">>, FALSE, {}),
      Command(<<"l", "o", "g", "o", "u", "t">>, FALSE, {}),
      Command(<<"r", "m">>, TRUE, ListFlags),
      Command(<<"r", "m", "l", "i", "s", "t">>, TRUE,
              {Flag(<<"f", "o", "r", "c", "e">>, "bool", "force")}),
      Command(<<"v", "e", "r", "s", "i", "o", "n">>, FALSE, {})>>

NewRegistry == [key \in {} |-> Command(<<>>, FALSE, {})]

\* Register that has put the name in before it looks at the aliases
RegisterNameFirst(cmds, c) ==
    IF c.name \in DOMAIN cmds THEN [cmds |-> cmds, ok |-> FALSE]
    ELSE IF \E i \in 1..Len(c.aliases) : c.aliases[i] \in DOMAIN cmds
    THEN [cmds |-> [key \in DOMAIN cmds \cup {c.name}
                      |-> IF key \in DOMAIN cmds THEN cmds[key] ELSE c],
          ok |-> FALSE]
    ELSE [cmds |-> [key \in DOMAIN cmds \cup {c.name} \cup Range(c.aliases)
                      |-> IF key \in DOMAIN cmds THEN cmds[key] ELSE c],
          ok |-> TRUE]

\* Registry.Register: the registry with c under its name and its aliases,
\* or the registry as it was when one of them is taken.
Register(cmds, c) ==
    IF c.name \in DOMAIN cmds THEN [cmds |-> cmds, ok |-> FALSE]
    ELSE IF \E i \in 1..Len(c.aliases) : c.aliases[i] \in DOMAIN cmds
    THEN [cmds |-> cmds, ok |-> FALSE]
    ELSE [cmds |-> [key \in DOMAIN cmds \cup {c.name} \cup Range(c.aliases)
                      |-> IF key \in DOMAIN cmds THEN cmds[key] ELSE c],
          ok |-> TRUE]

RECURSIVE RegisterAll(_, _)
RegisterAll(cmds, cs) ==
    IF cs = <<>> THEN cmds
    ELSE RegisterAll(Register(cmds, Head(cs)).cmds, Tail(cs))

DefaultRegistry == RegisterAll(NewRegistry, Registered)

FindPrefix(cmds, name) ==
    LET hits == {key \in DOMAIN cmds :
                    /\ Len(name) <= Len(key)
                    /\ SubSeq(key, 1, Len(name)) = name}
    IN  IF name # <<>> /\ hits # {}
        THEN [cmd |-> cmds[CHOOSE key \in hits : TRUE], ok |-> TRUE]
        ELSE [cmd |-> Command(<<>>, FALSE, {}), ok |-> FALSE]

\* Registry.Find
Find(cmds, name) ==
    IF name \in DOMAIN cmds THEN [cmd |-> cmds[name], ok |-> TRUE]
    ELSE [cmd |-> Command(<<>>, FALSE, {}), ok |-> FALSE]

-----------------------------------------------------------------------------
(* The registry under sequences of Register and Find calls *)

MaxRegisters == 2

\* The keys commands are registered and looked up under
RegKeys == {<<"r", "m">>, <<"R", "m">>, <<"l", "s">>}

\* The alias lists of the commands: none, one, or two (a repeated key included)
RegAliases ==
    {<<>>} \cup {<<a>> : a \in RegKeys} \cup {<<a, b>> : a, b \in RegKeys}

\* The id tells apart two commands of the same name and aliases.
RegCommand(id, name, aliases) ==
    [id |-> id, name |-> name, aliases |-> aliases, needsAuth |-> FALSE,
     flags |-> {}]

RegInit ==
    /\ r_cmds = NewRegistry
    /\ r_log = <<>>
    /\ r_find = <<>>
    /\ ParseIdle
    /\ SvcIdle
    /\ QueryIdle
    /\ CmdIdle
    /\ DispatchIdle

CallRegister ==
    /\ Len(r_log) < MaxRegisters
    /\ \E name \in RegKeys, aliases \in RegAliases :
          LET c == RegCommand(Len(r_log) + 1, name, aliases)
              r == Register(r_cmds, c)
          IN  /\ r_cmds' = r.cmds
              /\ r_log' = Append(r_log, [cmd |-> c, ok |-> r.ok,
                                         before |-> r_cmds])
    /\ UNCHANGED <<r_find, parseVars, svcVars, queryVars, cmdVars, dispVars>>

CallFind ==
    /\ \E name \in RegKeys :
          r_find' = [name |-> name, res |-> Find(r_cmds, name)]
    /\ UNCHANGED <<r_cmds, r_log, parseVars, svcVars, queryVars, cmdVars,
                   dispVars>>

RegNext ==
    \/ CallRegister
    \/ CallFind

SpecRegistry == RegInit /\ [][RegNext]_vars

-----------------------------------------------------------------------------
(* Flag parsing: FlagSet.Parse of the standard flag package *)

FlagErr(kind, tok) == [kind |-> kind, tok |-> tok]

CommonFlags ==
    {Flag(<<"c", "o", "n", "f", "i", "g">>, "string", "configDir"),
     Flag(<<"q", "u", "i", "e", "t">>, "bool", "quiet"),
     Flag(<<"d", "e", "b", "u", "g">>, "bool", "debug")}

\* The values of the flag variables before parsing
FlagDefaults ==
    [configDir |-> <<>>, quiet |-> FALSE, debug |-> FALSE,
     listName |-> <<>>, page |-> 1, force |-> FALSE]

TrueWords ==
    {<<"1">>, <<"t">>, <<"T">>, <<"t", "r", "u", "e">>,
     <<"T", "R", "U", "E">>, <<"T", "r", "u", "e">>}

FalseWords ==
    {<<"0">>, <<"f">>, <<"F">>, <<"f", "a", "l", "s", "e">>,
     <<"F", "A", "L", "S", "E">>, <<"F", "a", "l", "s", "e">>}

FormalNamed(formal, name) == {f \in formal : f.name = name}

\* Position of the first "=" after the first character of name, or 0
EqualsAt(name) ==
    LET at == {i \in 2..Len(name) : name[i] = "="}
    IN  IF at = {} THEN 0 ELSE CHOOSE i \in at : \A j \in at : i <= j

ParseState(err, vals, args, more) ==
    [err |-> err, vals |-> vals, args |-> args, more |-> more]

RECURSIVE OctalValue(_)
OctalValue(s) ==
    IF s = <<>> THEN 0
    ELSE 8 * OctalValue(SubSeq(s, 1, Len(s) - 1)) + (Code(s[Len(s)]) - 48)

OctalDigits(s) == \A i \in 1..Len(s) : Code(s[i]) >= 48 /\ Code(s[i]) <= 55

\* strconv.ParseInt(s, 0, 64) on an optional minus followed by decimal digits
\* or by 0 and octal digits; the inputs hold no other base prefix and no
\* underscore.
ParseInt(s) ==
    LET neg == s # <<>> /\ s[1] = "-"
        body == IF neg THEN Tail(s) ELSE s
        sign == IF neg THEN -1 ELSE 1
    IN  IF body = <<>> \/ ~AsciiDigits(body) \/ ~FitsInt(body)
        THEN [err |-> TRUE, num |-> 0]
        ELSE IF Len(body) > 1 /\ body[1] = "0"
        THEN IF OctalDigits(body)
             THEN [err |-> FALSE, num |-> sign * OctalValue(body)]
             ELSE [err |-> TRUE, num |-> 0]
        ELSE [err |-> FALSE, num |-> sign * DigitsValue(body)]

SetFlagDroppingNext(f, vals, value, args) ==
    ParseState(Nil, vals, IF args = <<>> THEN args ELSE Tail(args), TRUE)

\* Setting the variable of flag f from the text value
SetFlag(f, vals, value, args) ==
    CASE f.kind = "string" ->
           ParseState(Nil, [vals EXCEPT ![f.var] = value], args, TRUE)
      [] f.kind = "int" ->
           IF ParseInt(value).err
           THEN ParseState(FlagErr("invalid value", value), vals, args, FALSE)
           ELSE ParseState(Nil, [vals EXCEPT ![f.var] = ParseInt(value).num],
                           args, TRUE)
      [] f.kind = "bool" ->
           IF value \in TrueWords
           THEN ParseState(Nil, [vals EXCEPT ![f.var] = TRUE], args, TRUE)
           ELSE IF value \in FalseWords
           THEN ParseState(Nil, [vals EXCEPT ![f.var] = FALSE], args, TRUE)
           ELSE ParseState(FlagErr("invalid boolean value", value), vals,
                           args, FALSE)

\* FlagSet.parseOne: one flag taken off the front of args.
parseOne(formal, vals, args) ==
    IF args = <<>> THEN ParseState(Nil, vals, args, FALSE)
    ELSE LET s == Head(args)
         IN  IF Len(s) < 2 \/ s[1] # "-"
             THEN ParseState(Nil, vals, args, FALSE)
             ELSE IF s = <<"-", "-">>
             THEN ParseState(Nil, vals, Tail(args), FALSE)
             ELSE
             LET numMinuses == IF s[2] = "-" THEN 2 ELSE 1
                 full == SubSeq(s, numMinuses + 1, Len(s))
                 eq == EqualsAt(full)
                 name == IF eq = 0 THEN full ELSE SubSeq(full, 1, eq - 1)
                 hasValue == eq # 0
                 value == IF eq = 0 THEN <<>>
                          ELSE SubSeq(full, eq + 1, Len(full))
                 rest == Tail(args)
             IN  IF full[1] = "-" \/ full[1] = "="
                 THEN ParseState(FlagErr("bad flag syntax", s), vals, args,
                                 FALSE)
                 ELSE IF FormalNamed(formal, name) = {}
                 THEN IF name = <<"h", "e", "l", "p">> \/ name = <<"h">>
                      THEN ParseState(FlagErr("flag: help requested", <<>>),
                                      vals, rest, FALSE)
                      ELSE ParseState(FlagErr("flag provided but not defined",
                                              <<"-">> \o name),
                                      vals, rest, FALSE)
                 ELSE
                 LET f == CHOOSE x \in FormalNamed(formal, name) : TRUE
                 IN  IF f.kind = "bool"
                     THEN SetFlag(f, vals,
                                  IF hasValue THEN value
                                  ELSE <<"t", "r", "u", "e">>, rest)
                     ELSE IF hasValue THEN SetFlag(f, vals, value, rest)
                     ELSE IF rest # <<>>
                     THEN SetFlag(f, vals, Head(rest), Tail(rest))
                     ELSE ParseState(FlagErr("flag needs an argument",
                                             <<"-">> \o name),
                                     vals, rest, FALSE)

\* FlagSet.Parse: parseOne until it sees no flag or fails.
RECURSIVE FlagParse(_, _, _)
FlagParse(formal, vals, args) ==
    LET one == parseOne(formal, vals, args)
    IN  IF one.more THEN FlagParse(formal, one.vals, one.args) ELSE one

-----------------------------------------------------------------------------
(* The dispatcher: Dispatcher.Run and dispatchCommand *)

HasPrefixDash(token) == token # <<>> /\ token[1] = "-"

\* The dispatcher writes line to errOut and returns code.
DispatchFail(line, code) ==
    /\ d_err' = Append(d_err, line)
    /\ d_exit' = code
    /\ d_pc' = "returned"

DispatchLocals(cmd, remaining) ==
    [cmd |-> cmd,
     remaining |-> remaining,
     flagsParsed |-> FALSE,
     vals |-> FlagDefaults,
     positionalArgs |-> <<>>,
     factory |-> "unset",
     hasOAuthClient |-> FALSE,
     hasToken |-> FALSE,
     factoryCalls |-> 0,
     svc |-> "nil",
     runs |-> <<>>]

\* Lines 36-69: the command is selected.
DispatchSelect ==
    /\ d_pc = "Run"
    /\ LET cmdName == IF d_args = <<>> THEN <<"l", "i", "s", "t">>
                      ELSE Head(d_args)
           found == Find(DefaultRegistry, cmdName)
       IN  IF d_args # <<>> /\ HasPrefixDash(cmdName)
           THEN /\ DispatchFail(Line("error: unknown command: %s",
                                     <<cmdName>>), ExitUserError)
                /\ UNCHANGED d_st
           ELSE IF ~found.ok
           THEN /\ DispatchFail(Line("error: unknown command: %s",
                                     <<cmdName>>), ExitUserError)
                /\ UNCHANGED d_st
           ELSE /\ d_st' = DispatchLocals(found.cmd,
                                          IF d_args = <<>> THEN <<>>
                                          ELSE Tail(d_args))
                /\ d_pc' = "parse"
                /\ UNCHANGED <<d_err, d_exit>>
    /\ UNCHANGED <<d_args, parseVars, svcVars, queryVars, cmdVars, regVars>>

FlagNeedsText ==
    <<"f", "l", "a", "g", " ", "n", "e", "e", "d", "s", " ", "a", "n", " ",
      "a", "r", "g", "u", "m", "e", "n", "t">>

\* err.Error() of "flag needs an argument: -name"
NeedsArgumentText(err) == FlagNeedsText \o <<":", " ">> \o err.tok

\* strings.Split(errStr, ":")[0]
BeforeColon(text) ==
    LET colons == {i \in 1..Len(text) : text[i] = ":"}
    IN  IF colons = {} THEN text
        ELSE SubSeq(text, 1,
                    (CHOOSE i \in colons : \A j \in colons : i <= j) - 1)

\* strings.TrimPrefix(text, "flag ")
TrimPrefixFlag(text) ==
    IF Len(text) >= 5 /\ SubSeq(text, 1, 5) = <<"f", "l", "a", "g", " ">>
    THEN SubSeq(text, 6, Len(text))
    ELSE text

\* Lines 96-99: the flag name the dispatcher extracts from the error text
FlagPart(err) == TrimPrefixFlag(TrimSpace(BeforeColon(NeedsArgumentText(err))))

\* Lines 72-136: the flags are parsed and the configuration is made.
DispatchParse ==
    /\ d_pc = "parse"
    /\ LET parsed == FlagParse(CommonFlags \cup d_st.cmd.flags, FlagDefaults,
                               d_st.remaining)
           err == parsed.err
       IN  /\ d_st' = [d_st EXCEPT !.flagsParsed = TRUE,
                                   !.vals = parsed.vals,
                                   !.positionalArgs = parsed.args]
           /\ IF err # Nil /\ err.kind = "flag needs an argument"
              THEN DispatchFail(Line("error: flag needs an argument: %s",
                                     <<FlagPart(err)>>), ExitUserError)
              ELSE IF err # Nil /\ err.kind = "flag provided but not defined"
              THEN DispatchFail(Line("error: unknown flag: %s", <<err.tok>>),
                                ExitUserError)
              ELSE IF err # Nil
              THEN DispatchFail(Line("error: %s", <<err>>), ExitUserError)
              ELSE IF parsed.args # <<>> /\ HasPrefixDash(parsed.args[1])
              THEN DispatchFail(Line("error: unknown flag: %s",
                                     <<parsed.args[1]>>), ExitUserError)
              ELSE /\ d_pc' = IF d_st.cmd.needsAuth THEN "auth" ELSE "invoke"
                   /\ UNCHANGED <<d_err, d_exit>>
    /\ UNCHANGED <<d_args, parseVars, svcVars, queryVars, cmdVars, regVars>>

Factories == {"nil", "service", "auth error", "other error"}

AuthResult(ok, line, code) == [ok |-> ok, line |-> line, code |-> code]

AuthOutcomeWithoutToken(factory, hasOAuthClient, hasToken, dir) ==
    IF factory = "auth error"
    THEN AuthResult(FALSE, Line("error: auth error: %s", <<factory>>),
                    ExitAuthError)
    ELSE IF factory = "other error"
    THEN AuthResult(FALSE, Line("error: backend error: %s", <<factory>>),
                    ExitBackendError)
    ELSE IF factory = "nil" /\ ~hasOAuthClient
    THEN AuthResult(FALSE, Line("error: oauth_client.json not found in %s",
                                <<dir>>), ExitAuthError)
    ELSE AuthResult(TRUE, Line("", <<>>), NoExit)

\* Lines 141-166: what the authorization comes to.
AuthOutcome(factory, hasOAuthClient, hasToken, dir) ==
    IF factory = "auth error"
    THEN AuthResult(FALSE, Line("error: auth error: %s", <<factory>>),
                    ExitAuthError)
    ELSE IF factory = "other error"
    THEN AuthResult(FALSE, Line("error: backend error: %s", <<factory>>),
                    ExitBackendError)
    ELSE IF factory = "nil" /\ ~hasOAuthClient
    THEN AuthResult(FALSE, Line("error: oauth_client.json not found in %s",
                                <<dir>>), ExitAuthError)
    ELSE IF factory = "nil" /\ ~hasToken
    THEN AuthResult(FALSE, Line("error: not logged in (run: gtask login)",
                                <<>>), ExitAuthError)
    ELSE AuthResult(TRUE, Line("", <<>>), NoExit)

\* Lines 138-167: the authorization of a command that needs it.  The
\* dispatcher has a factory that answers with a service, with an error that
\* mentions "token" or "auth", or with another error; or it has none and
\* looks for the two files.
DispatchAuth ==
    /\ d_pc = "auth"
    /\ \E factory \in Factories, hasOAuthClient \in BOOLEAN,
          hasToken \in BOOLEAN :
          LET auth == AuthOutcome(factory, hasOAuthClient, hasToken,
                                  d_st.vals.configDir)
          IN  /\ d_st' = [d_st EXCEPT
                            !.factory = factory,
                            !.hasOAuthClient = hasOAuthClient,
                            !.hasToken = hasToken,
                            !.factoryCalls =
                               IF factory = "nil" THEN @ ELSE @ + 1,
                            !.svc = IF factory = "service" THEN "service"
                                    ELSE @]
              /\ IF auth.ok
                 THEN /\ d_pc' = "invoke"
                      /\ UNCHANGED <<d_err, d_exit>>
                 ELSE DispatchFail(auth.line, auth.code)
    /\ UNCHANGED <<d_args, parseVars, svcVars, queryVars, cmdVars, regVars>>

RunCall(st) ==
    [cmd |-> st.cmd.name, svc |-> st.svc, args |-> st.positionalArgs,
     quiet |-> st.vals.quiet]

\* Line 170: the command body is entered.
DispatchInvoke ==
    /\ d_pc = "invoke"
    /\ c_pc = "idle"
    /\ d_st' = [d_st EXCEPT !.runs = Append(@, RunCall(d_st))]
    /\ d_pc' = "running"
    /\ c_in' = [cmd |-> IF d_st.cmd.name = <<"r", "m">> THEN "rm" ELSE "body",
                args |-> d_st.positionalArgs,
                listName |-> d_st.vals.listName,
                quiet |-> d_st.vals.quiet,
                svc |-> d_st.svc]
    /\ c_pc' = c_in'.cmd
    /\ UNCHANGED <<d_args, d_err, d_exit, c_loc, c_out, c_err, c_exit, c_calls,
                   parseVars, svcVars, queryVars, regVars>>

\* Line 170: the value the command body returned is the exit code.
DispatchReturn ==
    /\ d_pc = "running"
    /\ c_pc \in {"returned", "panicked"}
    /\ d_exit' = c_exit
    /\ d_pc' = "returned"
    /\ UNCHANGED <<d_args, d_st, d_err, parseVars, svcVars, queryVars, cmdVars,
                   regVars>>

-----------------------------------------------------------------------------
(* The dispatcher on bounded argument vectors *)

MaxDispatchArgs == 3

\* The first token of the argument vector
DispatchTokens ==
    {<<"l", "i", "s", "t">>, <<"r", "m">>, <<"v", "e", "r", "s", "i", "o", "n">>,
     <<"r">>, <<"L", "i", "s", "t">>, <<>>,
     <<"-", "-", "q", "u", "i", "e", "t">>, <<"-">>}

\* The tokens after it
DispatchRestTokens ==
    {<<"-", "-", "q", "u", "i", "e", "t">>, <<"-", "l">>,
     <<"-", "-", "l", "i", "s", "t">>,
     <<"-", "-", "l", "i", "s", "t", "=", "a">>,
     <<"-", "-", "c", "o", "n", "f", "i", "g">>,
     <<"-", "-", "p", "a", "g", "e">>, <<"-", "-">>, <<"-">>,
     <<"-", "-", "b", "o", "g", "u", "s">>, <<"1">>, <<"a", "1">>}

DispatchArgs ==
    {<<>>} \cup {<<first>> \o rest :
                    first \in DispatchTokens,
                    rest \in SeqsUpTo(DispatchRestTokens, MaxDispatchArgs)}

DispatchInit ==
    /\ svc_lists = RmLists
    /\ svc_tasks = RmTasks
    /\ d_args \in DispatchArgs
    /\ d_pc = "Run"
    /\ d_st = <<>>
    /\ d_err = <<>>
    /\ d_exit = NoExit
    /\ CmdIdle
    /\ QueryIdle
    /\ ParseIdle
    /\ RegIdle

DispatchNext ==
    \/ DispatchSelect
    \/ DispatchParse
    \/ DispatchAuth
    \/ DispatchInvoke
    \/ DispatchReturn
    \/ RmParse
    \/ RmNilService
    \/ RmDefaultList
    \/ RmBuildListLetterMap
    \/ RmResolveList
    \/ RmResolveRef
    \/ RmDeleteTarget

SpecDispatch == DispatchInit /\ [][DispatchNext]_vars

-----------------------------------------------------------------------------
(* createlist, addlist and rmlist: one step per call of the task source *)

\* CreateList: the provider appends a list of that title under a new ID.
CreateList(lists, tasks, name) ==
    LET used == {lists[i].ID : i \in 1..Len(lists)} \cup {DefaultListID}
        id == 1 + CHOOSE m \in used : \A x \in used : x <= m
    IN  [lists |-> Append(lists, Named(id, name)),
         tasks |-> tasks @@ (id :> <<>>)]

\* DeleteList that answers without deleting
DeleteListNothing(lists, tasks, listID) ==
    [lists |-> lists, tasks |-> tasks, err |-> Nil]

\* DeleteList: the lists without the one of that ID, and without its tasks.
DeleteList(lists, tasks, listID) ==
    LET NotIt(l) == l.ID # listID
    IN  IF \A i \in 1..Len(lists) : lists[i].ID # listID
        THEN [lists |-> lists, tasks |-> tasks, err |-> ErrNotFound]
        ELSE [lists |-> SelectSeq(lists, NotIt),
              tasks |-> [id \in DOMAIN tasks \ {listID} |-> tasks[id]],
              err |-> Nil]

\* runCreateList lines 52-64 and RmListCmd.Run lines 41-52: the name
NameRequired ==
    /\ c_pc \in {"createlist", "rmlist"}
    /\ LET name == TrimSpace(Join(c_in.args))
       IN  IF Len(c_in.args) = 0 \/ name = <<>>
           THEN /\ Fail(Line("error: list name required", <<>>), ExitUserError)
                /\ UNCHANGED c_loc
           ELSE /\ c_loc' = [name |-> name, list |-> ZeroList]
                /\ c_pc' = IF c_pc = "createlist" THEN "createlist:ResolveList"
                           ELSE "rmlist:ResolveList"
                /\ UNCHANGED <<c_err, c_exit>>
    /\ UNCHANGED <<c_in, c_out, c_calls, parseVars, svcVars, queryVars,
                   dispVars, regVars>>

\* runCreateList lines 66-77: an existing list of the name ends the run.
CreateListResolveList ==
    /\ c_pc = "createlist:ResolveList"
    /\ \E failure \in {Nil} \cup ResolveFailures :
          LET r == IF failure # Nil THEN [list |-> ZeroList, err |-> failure]
                   ELSE ResolveList(svc_lists, c_loc.name)
          IN  /\ c_calls' = Append(c_calls,
                                   [Call("ResolveList", NoID, c_loc.name,
                                         r.err = Nil) EXCEPT !.err = r.err])
              /\ IF r.err = Nil
                 THEN Fail(Line("error: list already exists: %s",
                                <<c_loc.name>>), ExitUserError)
                 ELSE IF ~ContainsNotFound(r.err) /\ ~ContainsAmbiguous(r.err)
                 THEN Fail(Line("error: backend error: %v", <<r.err>>),
                           ExitBackendError)
                 ELSE /\ c_pc' = "createlist:CreateList"
                      /\ UNCHANGED <<c_err, c_exit>>
    /\ UNCHANGED <<c_in, c_loc, c_out, parseVars, svcVars, queryVars,
                   dispVars, regVars>>

\* runCreateList lines 79-89
CreateListCreateList ==
    /\ c_pc = "createlist:CreateList"
    /\ \E fails \in BOOLEAN :
          /\ c_calls' = Append(c_calls,
                               Call("CreateList", NoID, c_loc.name, ~fails))
          /\ IF fails
             THEN /\ Fail(Line("error: backend error: %v", <<ErrBackend>>),
                          ExitBackendError)
                  /\ UNCHANGED <<c_out, svcVars>>
             ELSE LET made == CreateList(svc_lists, svc_tasks, c_loc.name)
                  IN  /\ svc_lists' = made.lists
                      /\ svc_tasks' = made.tasks
                      /\ c_out' = IF c_in.quiet THEN c_out
                                  ELSE Append(c_out, Line("ok", <<>>))
                      /\ c_pc' = "returned"
                      /\ c_exit' = ExitSuccess
                      /\ UNCHANGED c_err
    /\ UNCHANGED <<c_in, c_loc, parseVars, queryVars, dispVars, regVars>>

\* RmListCmd.Run lines 54-73: the list of the name, which is not the default
RmListResolveList ==
    /\ c_pc = "rmlist:ResolveList"
    /\ \E failure \in {Nil} \cup ResolveFailures :
          LET r == IF failure # Nil THEN [list |-> ZeroList, err |-> failure]
                   ELSE ResolveList(svc_lists, c_loc.name)
          IN  /\ c_calls' = Append(c_calls,
                                   [Call("ResolveList", NoID, c_loc.name,
                                         r.err = Nil) EXCEPT !.err = r.err])
              /\ IF ContainsNotFound(r.err)
                 THEN /\ Fail(Line("error: list not found: %s",
                                   <<c_loc.name>>), ExitUserError)
                      /\ UNCHANGED c_loc
                 ELSE IF ContainsAmbiguous(r.err)
                 THEN /\ Fail(Line("error: ambiguous list name: %s",
                                   <<c_loc.name>>), ExitUserError)
                      /\ UNCHANGED c_loc
                 ELSE IF r.err # Nil
                 THEN /\ Fail(Line("error: backend error: %v", <<r.err>>),
                              ExitBackendError)
                      /\ UNCHANGED c_loc
                 ELSE IF r.list.IsDefault
                 THEN /\ Fail(Line("error: cannot delete default list", <<>>),
                              ExitUserError)
                      /\ UNCHANGED c_loc
                 ELSE /\ c_loc' = [c_loc EXCEPT !.list = r.list]
                      /\ c_pc' = IF c_in.force THEN "rmlist:DeleteList"
                                 ELSE "rmlist:HasOpenTasks"
                      /\ UNCHANGED <<c_err, c_exit>>
    /\ UNCHANGED <<c_in, c_out, parseVars, svcVars, queryVars, dispVars,
                   regVars>>

\* RmListCmd.Run lines 75-86: without --force the list must have no open task.
RmListHasOpenTasks ==
    /\ c_pc = "rmlist:HasOpenTasks"
    /\ \E fails \in BOOLEAN :
          /\ c_calls' = Append(c_calls, Call("HasOpenTasks", c_loc.list.ID,
                                             NoID, ~fails))
          /\ IF fails
             THEN Fail(Line("error: backend error: %v", <<ErrBackend>>),
                       ExitBackendError)
             ELSE IF HasOpenTasks(svc_tasks, c_loc.list.ID)
             THEN Fail(Line("error: list not empty (use --force)", <<>>),
                       ExitUserError)
             ELSE /\ c_pc' = "rmlist:DeleteList"
                  /\ UNCHANGED <<c_err, c_exit>>
    /\ UNCHANGED <<c_in, c_loc, c_out, parseVars, svcVars, queryVars,
                   dispVars, regVars>>

\* RmListCmd.Run lines 88-98
RmListDeleteList ==
    /\ c_pc = "rmlist:DeleteList"
    /\ \E fails \in BOOLEAN :
          LET d == IF fails
                   THEN [lists |-> svc_lists, tasks |-> svc_tasks,
                         err |-> ErrBackend]
                   ELSE DeleteList(svc_lists, svc_tasks, c_loc.list.ID)
          IN  /\ c_calls' = Append(c_calls, Call("DeleteList", c_loc.list.ID,
                                                 NoID, d.err = Nil))
              /\ svc_lists' = d.lists
              /\ svc_tasks' = d.tasks
              /\ IF d.err # Nil
                 THEN /\ Fail(Line("error: backend error: %v", <<d.err>>),
                              ExitBackendError)
                      /\ UNCHANGED c_out
                 ELSE /\ c_out' = IF c_in.quiet THEN c_out
                                  ELSE Append(c_out, Line("ok", <<>>))
                      /\ c_pc' = "returned"
                      /\ c_exit' = ExitSuccess
                      /\ UNCHANGED c_err
    /\ UNCHANGED <<c_in, c_loc, parseVars, queryVars, dispVars, regVars>>

MaxListArgs == 2

\* The lists of rm and a sixth list, c, that holds a completed task only
ListCmdLists == Append(RmLists, Named(5, <<"c">>))

ListCmdTasks == RmTasks @@ (5 :> <<DoneTask(1)>>)

ListNameTokens ==
    {<<"a">>, <<"A", " ">>, <<"b">>, <<"c">>, <<"e">>, <<"z">>, <<"q">>,
     <<" ">>}

ListCmdInit ==
    /\ svc_lists = ListCmdLists
    /\ svc_tasks = ListCmdTasks
    /\ c_in \in [cmd : {"createlist", "addlist", "rmlist"},
                 args : SeqsUpTo(ListNameTokens, MaxListArgs),
                 quiet : BOOLEAN,
                 force : BOOLEAN,
                 svc : {"service"}]
    /\ c_in.cmd # "rmlist" => ~c_in.force
    /\ c_pc = IF c_in.cmd = "rmlist" THEN "rmlist" ELSE "createlist"
    /\ c_loc = <<>>
    /\ c_out = <<>>
    /\ c_err = <<>>
    /\ c_exit = NoExit
    /\ c_calls = <<>>
    /\ QueryIdle
    /\ ParseIdle
    /\ DispatchIdle
    /\ RegIdle

ListCmdNext ==
    \/ NameRequired
    \/ CreateListResolveList
    \/ CreateListCreateList
    \/ RmListResolveList
    \/ RmListHasOpenTasks
    \/ RmListDeleteList

SpecListCmd == ListCmdInit /\ [][ListCmdNext]_vars

-----------------------------------------------------------------------------
(* Properties *)

IsDigitChar(c) == c \in Range(DigitChars)

IsLowerChar(c) == c \in Range(LowerChars)

AllDigitToken(t) == t # <<>> /\ \A i \in 1..Len(t) : IsDigitChar(t[i])

LetterDigitsToken(t) ==
    Len(t) >= 2 /\ IsLowerChar(t[1]) /\ AllDigitToken(Tail(t))

RECURSIVE IntegerOf(_)
IntegerOf(t) ==
    IF t = <<>> THEN 0
    ELSE (IndexOf(DigitChars, t[1]) - 1) * (10 ^ (Len(t) - 1))
           + IntegerOf(Tail(t))

LetterRune(c) == 96 + IndexOf(LowerChars, c)

NumericRefOf(t) == TaskRef(0, IntegerOf(t), FALSE)

CombinedRefOf(t) == TaskRef(LetterRune(t[1]), IntegerOf(Tail(t)), TRUE)

\* C7 as stated: every all-digit token parses to the numeric reference of its
\* value, every <lowercase letter><digits> token to the combined reference of
\* its components, and every other token fails with "invalid task reference:
\* <token>".
C7_AsStated ==
    (p_fn = "ParseTaskRef" /\ Len(p_args) >= 1) =>
      LET t == p_args[1]
      IN  /\ AllDigitToken(t) =>
               (p_res.err = Nil /\ p_res.ref = NumericRefOf(t))
          /\ LetterDigitsToken(t) =>
               (p_res.err = Nil /\ p_res.ref = CombinedRefOf(t))
          /\ (~AllDigitToken(t) /\ ~LetterDigitsToken(t)) =>
               p_res.err = ErrInvalidRef(t)

\* C7 amended: the same for the tokens whose digits denote a value of at most
\* 2^63 - 1; a token whose digits denote a larger value fails with "invalid
\* task reference: <token>" like every token outside the grammar.
C7_SingleTokenGrammar ==
    (p_fn = "ParseTaskRef" /\ Len(p_args) >= 1) =>
      LET t == p_args[1]
          numeric == AllDigitToken(t) /\ FitsInt(t)
          combined == LetterDigitsToken(t) /\ FitsInt(Tail(t))
      IN  /\ numeric => (p_res.err = Nil /\ p_res.ref = NumericRefOf(t))
          /\ combined => (p_res.err = Nil /\ p_res.ref = CombinedRefOf(t))
          /\ (~numeric /\ ~combined) =>
               (p_res.err = ErrInvalidRef(t) /\ p_res.ref = ZeroRef)

C7_Witness ==
    /\ p_fn = "ParseTaskRef"
    /\ p_args = << <<"z", "1", "2">> >>
    /\ p_res = RefResult(TaskRef(122, 12, TRUE), Nil)

LoneLetter(t) == Len(t) = 1 /\ IsLowerChar(t[1])

SeparatedRefOf(first, second) ==
    TaskRef(LetterRune(first[1]), IntegerOf(second), TRUE)

ValidRefToken(t) ==
    \/ AllDigitToken(t) /\ FitsInt(t)
    \/ LetterDigitsToken(t) /\ FitsInt(Tail(t))

RefOf(t) == IF AllDigitToken(t) THEN NumericRefOf(t) ELSE CombinedRefOf(t)

\* The leftmost token of args that is no valid reference
LeftmostInvalid(args) ==
    args[CHOOSE i \in 1..Len(args) :
           /\ ~ValidRefToken(args[i])
           /\ \A j \in 1..(i - 1) : ValidRefToken(args[j])]

\* C9: ParseTaskRefs on one or more tokens returns, when every token is a
\* valid reference, the references of the tokens in the tokens' order, one
\* per token; otherwise it returns no reference and the error "invalid task
\* reference: <t>" for the leftmost token t that is no valid reference (a
\* lone letter included).
C9_BatchParsing ==
    (p_fn = "ParseTaskRefs" /\ Len(p_args) >= 1) =>
      IF \A i \in 1..Len(p_args) : ValidRefToken(p_args[i])
      THEN /\ p_res.err = Nil
           /\ Len(p_res.refs) = Len(p_args)
           /\ \A i \in 1..Len(p_args) : p_res.refs[i] = RefOf(p_args[i])
      ELSE /\ p_res.err = ErrInvalidRef(LeftmostInvalid(p_args))
           /\ p_res.refs = <<>>

C9_Witness ==
    /\ p_fn = "ParseTaskRefs"
    /\ p_args = << <<"a", "1">>, <<"1">>, <<"a">> >>
    /\ p_res = RefsResult(<<>>, ErrInvalidRef(<<"a">>))

RefInvariant(r) ==
    /\ r.TaskNum >= 1
    /\ ~r.HasLetter => r.Letter = 0
    /\ r.HasLetter => r.Letter \in 97..122

\* C10: every TaskRef that ParseTaskRef or ParseTaskRefs returns without
\* error has TaskNum >= 1, Letter = 0 when HasLetter is false and Letter in
\* a..z when HasLetter is true.
C10_RefInvariant ==
    /\ (p_fn \in {"ParseTaskRef", "ParseTaskRefSep"} /\ p_res.err = Nil) =>
         RefInvariant(p_res.ref)
    /\ (p_fn = "ParseTaskRefs" /\ p_res.err = Nil) =>
         \A i \in 1..Len(p_res.refs) : RefInvariant(p_res.refs[i])

-----------------------------------------------------------------------------
(* The task locator *)

NotCompleted(t) == t.Status # "completed"

\* The open tasks of the located list, in provider order
OpenInOrder == SelectSeq(svc_tasks[DefaultListID], NotCompleted)

\* C3: for a list with n open tasks the locator returns the task at absolute
\* 1-based position number when 1 <= number <= n, and returns the
\* out-of-range error, without panicking and without returning another task,
\* when number = 0 or number > n.
C3_LocatorTotal ==
    (q_op \in {"findTaskByNumber", "findTaskByNumberCached"} /\ ~q_arg.fails)
    => LET n == Len(OpenInOrder)
           num == q_arg.num
       IN  /\ (1 <= num /\ num <= n)
                => /\ ~q_res.panic
                   /\ q_res.err = Nil
                   /\ q_res.task = OpenInOrder[num]
           /\ (num = 0 \/ num > n)
                => /\ ~q_res.panic
                   /\ q_res.err = ErrOutOfRange(num)
                   /\ q_res.task = ZeroTask

-----------------------------------------------------------------------------
(* The list-letter mapper *)

HasAnOpenTask(list) ==
    Cardinality({i \in 1..Len(svc_tasks[list.ID]) :
                    svc_tasks[list.ID][i].Status = "needsAction"}) > 0

LetteredList(list) == ~list.IsDefault /\ HasAnOpenTask(list)

\* The non-default lists with open tasks, in provider order
Lettered == SelectSeq(svc_lists, LetteredList)

\* C5: when exactly k non-default lists have open tasks, 0 <= k <= 26, the
\* mapping has exactly the keys a..(a+k-1), the i-th such list in provider
\* order has the i-th letter, and no default list and no list without open
\* tasks has a letter; with k = 27 the mapper fails with too-many-lists.
C5_LetterMap ==
    (q_op = "BuildListLetterMap" /\ q_arg.failAt = 0)
    => LET k == Len(Lettered)
       IN  /\ k <= 26
                => /\ q_res.err = Nil
                   /\ DOMAIN q_res.byLetter = 97..(97 + k - 1)
                   /\ \A i \in 1..k : q_res.byLetter[96 + i] = Lettered[i]
                   /\ \A c \in DOMAIN q_res.byLetter :
                         LetteredList(q_res.byLetter[c])
           /\ k = 27 => q_res.err = ErrTooManyLists

\* 26 lettered lists with a default list and lists without open tasks between
\* them: the last one is z.
C5_Witness ==
    /\ q_op = "BuildListLetterMap"
    /\ q_arg.failAt = 0
    /\ Len(Lettered) = 26
    /\ \E i, j, l \in 1..Len(svc_lists) :
          /\ i < j /\ j < l
          /\ LetteredList(svc_lists[i])
          /\ ~svc_lists[j].IsDefault /\ ~HasAnOpenTask(svc_lists[j])
          /\ LetteredList(svc_lists[l])
    /\ \E i \in 2..(Len(svc_lists) - 1) : svc_lists[i].IsDefault
    /\ q_res.err = Nil
    /\ q_res.byLetter[122] = Lettered[26]

\* C6: with more than 26 non-default lists with open tasks, every operation
\* that assigns or resolves list letters fails with the too-many-lists
\* error, whatever letter is asked for; none returns a list.
C6_TooManyLists ==
    (/\ q_op \in {"BuildListLetterMap", "ResolveListByLetter",
                  "ResolveListByLetterWalk"}
     /\ q_arg.failAt = 0
     /\ Len(Lettered) > 26)
    => q_res.err = ErrTooManyLists

-----------------------------------------------------------------------------
(* The page cache *)

IsFetch(c) == c.op = "ListOpenTasks"

\* The calls of ListOpenTasks the invocation has made, in order
Fetches == SelectSeq(c_calls, IsFetch)

FetchesOf(listID) == {i \in 1..Len(Fetches) : Fetches[i].list = listID}

CeilDiv(a, b) == (a + b - 1) \div b

\* The largest task number among the references of the invocation
MaxRefNumber ==
    LET nums == {c_loc.refs[i].TaskNum : i \in 1..Len(c_loc.refs)}
    IN  CHOOSE m \in nums : \A x \in nums : x <= m

\* C4: within one invocation ListOpenTasks is called at most once for every
\* (listID, page), a fetched page is kept in the cache also when it is empty,
\* and the references against one list cost at most ceil(maxNumber/100)
\* fetches.
C4_PageCache ==
    /\ \A i, j \in 1..Len(Fetches) :
          (Fetches[i].list = Fetches[j].list /\ Fetches[i].arg = Fetches[j].arg)
          => i = j
    /\ \A i \in 1..Len(Fetches) :
          Fetches[i].ok
          => \E e \in c_loc.cache :
                /\ e.list = Fetches[i].list
                /\ e.page = Fetches[i].arg
                /\ (c_pc = "rm:resolve")
                     => e.tasks = ListOpenTasks(svc_tasks, e.list, e.page)
    /\ \A i \in 1..Len(Fetches) :
          Cardinality(FetchesOf(Fetches[i].list)) <= CeilDiv(MaxRefNumber, 100)

\* Three references against the default list, two of them in page 1 and one
\* in page 2, resolved and deleted with two fetches.
C4_Witness ==
    /\ c_pc = "returned"
    /\ c_exit = ExitSuccess
    /\ Len(c_loc.refs) = 3
    /\ \A i \in 1..3 : ~c_loc.refs[i].HasLetter
    /\ \E i, j, k \in 1..3 :
          /\ c_loc.refs[i].TaskNum = 1
          /\ c_loc.refs[j].TaskNum = 2
          /\ c_loc.refs[k].TaskNum = 101
    /\ Len(Fetches) = 2
    /\ Len(c_loc.targets) = 3

-----------------------------------------------------------------------------
(* The dispatcher *)

\* The registered commands that answer to token, by name or by alias
Answering(token) ==
    {i \in 1..Len(Registered) :
        \/ Registered[i].name = token
        \/ \E a \in 1..Len(Registered[i].aliases) :
              Registered[i].aliases[a] = token}

\* The invocation ended in "unknown command" before anything else was done.
UnknownCommand(token) ==
    /\ d_pc = "returned"
    /\ d_err = <<Line("error: unknown command: %s", <<token>>)>>
    /\ d_exit = 1
    /\ d_st = <<>>
    /\ c_pc = "idle"
    /\ c_calls = <<>>

\* C1: an empty argument vector selects list with no positional arguments;
\* a first token that begins with - ends the run with "error: unknown
\* command: <token>" and exit code 1; any other first token selects the
\* command whose name or alias equals it exactly, and ends the run in the
\* same way when there is none.  In both failures no flag is parsed, no
\* service is created and no command body is entered.
C1_CommandSelection ==
    (d_pc \notin {"idle", "Run"})
    => IF d_args = <<>>
       THEN /\ d_st.cmd.name = <<"l", "i", "s", "t">>
            /\ d_st.remaining = <<>>
            /\ d_st.positionalArgs = <<>>
            /\ \A i \in 1..Len(d_st.runs) : d_st.runs[i].args = <<>>
       ELSE IF Head(d_args) # <<>> /\ Head(d_args)[1] = "-"
       THEN UnknownCommand(Head(d_args))
       ELSE IF Answering(Head(d_args)) = {}
       THEN UnknownCommand(Head(d_args))
       ELSE /\ d_st # <<>>
            /\ \E i \in Answering(Head(d_args)) : d_st.cmd = Registered[i]
            /\ d_st.remaining = Tail(d_args)

\* --quiet before any command: unknown command, exit code 1.
C1_Witness ==
    /\ d_args # <<>>
    /\ Head(d_args) = <<"-", "-", "q", "u", "i", "e", "t">>
    /\ d_pc = "returned"
    /\ d_exit = 1
    /\ d_err = <<Line("error: unknown command: %s", <<Head(d_args)>>)>>

\* The dispatcher did not obtain the authenticated service.
AuthFailed ==
    \/ d_st.factory \in {"auth error", "other error"}
    \/ d_st.factory = "nil" /\ (~d_st.hasOAuthClient \/ ~d_st.hasToken)

\* C2: when the command needs authorization and the dispatcher fails to
\* obtain the authenticated service (the factory fails, or without a factory
\* one of the two files is missing), the command's Run is not entered.
C2_AuthGating ==
    (d_st # <<>> /\ d_st.cmd.needsAuth /\ AuthFailed)
    => /\ d_st.runs = <<>>
       /\ c_pc = "idle"
       /\ c_calls = <<>>
       /\ d_pc = "returned"
       /\ d_exit # ExitSuccess

\* rm without a factory and without token.json: not logged in, exit code 2.
C2_Witness ==
    /\ d_st # <<>>
    /\ d_st.cmd.name = <<"r", "m">>
    /\ d_st.factory = "nil"
    /\ d_st.hasOAuthClient
    /\ ~d_st.hasToken
    /\ d_pc = "returned"
    /\ d_exit = ExitAuthError
    /\ d_st.runs = <<>>

-----------------------------------------------------------------------------
(* The flag region *)

\* The flags the selected command accepts, with the common ones
Accepted == CommonFlags \cup d_st.cmd.flags

\* The name in a flag token: without its dashes and without =value
NameIn(token) ==
    LET noDash == IF Len(token) > 1 /\ token[2] = "-"
                  THEN SubSeq(token, 3, Len(token))
                  ELSE SubSeq(token, 2, Len(token))
        eqs == {i \in 1..Len(noDash) : noDash[i] = "="}
    IN  IF eqs = {} THEN noDash
        ELSE SubSeq(noDash, 1, (CHOOSE i \in eqs : \A j \in eqs : i <= j) - 1)

HasEquals(token) == \E i \in 1..Len(token) : token[i] = "="

\* The token is an accepted flag that takes its value from the next token.
TakesNext(token) ==
    /\ ~HasEquals(token)
    /\ \E f \in Accepted : f.name = NameIn(token) /\ f.kind # "bool"

\* Position in tokens of the first positional token, from position i on:
\* flags and their values are passed over, -- ends the flags.
RECURSIVE FirstPositional(_, _)
FirstPositional(tokens, i) ==
    IF i > Len(tokens) THEN i
    ELSE IF tokens[i] = <<>> \/ tokens[i][1] # "-" \/ tokens[i] = <<"-">>
    THEN i
    ELSE IF tokens[i] = <<"-", "-">> THEN i + 1
    ELSE IF TakesNext(tokens[i]) THEN FirstPositional(tokens, i + 2)
    ELSE FirstPositional(tokens, i + 1)

\* C11: the positional arguments handed to Run are exactly the tokens from
\* the first positional token onward, in their order, later tokens that
\* begin with - included; no flag and no flag value before it is among them.
C11_FlagBoundary ==
    (d_st # <<>>)
    => \A r \in 1..Len(d_st.runs) :
          d_st.runs[r].args =
             SubSeq(d_st.remaining, FirstPositional(d_st.remaining, 1),
                    Len(d_st.remaining))

\* rm --list=a 1 --quiet: Run gets 1 and --quiet, not --list=a.
C11_Witness ==
    /\ d_st # <<>>
    /\ Len(d_st.runs) = 1
    /\ Len(d_st.remaining) = 3
    /\ HasPrefixDash(d_st.remaining[1])
    /\ d_st.runs[1].args = <<d_st.remaining[2], d_st.remaining[3]>>
    /\ HasPrefixDash(d_st.remaining[3])
    /\ d_st.vals.listName = <<"a">>
    /\ ~d_st.vals.quiet

\* Position of the first token that does not begin with - and is not the
\* value of an accepted flag, from position i on
RECURSIVE RegionEnd(_, _)
RegionEnd(tokens, i) ==
    IF i > Len(tokens) THEN i
    ELSE IF tokens[i] = <<>> \/ tokens[i][1] # "-" THEN i
    ELSE IF TakesNext(tokens[i]) THEN RegionEnd(tokens, i + 2)
    ELSE RegionEnd(tokens, i + 1)

\* Token i lies in the flag region, begins with - and is neither an
\* accepted flag nor the value of one.
Unrecognised(tokens, i) ==
    /\ i < RegionEnd(tokens, 1)
    /\ tokens[i][1] = "-"
    /\ ~(i > 1 /\ TakesNext(tokens[i - 1]) /\ RegionEnd(tokens, i - 1) > i)
    /\ ~\E f \in Accepted : f.name = NameIn(tokens[i])

\* Every value given to an accepted integer flag before position i is one.
IntValuesValid(tokens, i) ==
    \A j \in 1..(i - 2) :
        (/\ TakesNext(tokens[j])
         /\ \E f \in Accepted : f.name = NameIn(tokens[j]) /\ f.kind = "int")
        => ~ParseInt(tokens[j + 1]).err

\* C12: a token that begins with -, comes before the first positional token
\* and is no accepted flag ends the run with "error: unknown flag: <flag>"
\* and exit code 1, before a service is created or a command body entered.
C12_UnknownFlag ==
    (/\ d_st # <<>>
     /\ d_st.flagsParsed
     /\ \E i \in 1..Len(d_st.remaining) :
           /\ Unrecognised(d_st.remaining, i)
           /\ IntValuesValid(d_st.remaining, i))
    => /\ d_pc = "returned"
       /\ d_exit = ExitUserError
       /\ Len(d_err) = 1
       /\ d_err[1].format = "error: unknown flag: %s"
       /\ d_st.factoryCalls = 0
       /\ d_st.runs = <<>>

\* The flags parse up to the last token, which is an accepted flag that
\* takes its value from a next token that is not there.
RECURSIVE ValueMissing(_, _)
ValueMissing(tokens, i) ==
    IF i > Len(tokens) THEN FALSE
    ELSE IF tokens[i] = <<>> \/ tokens[i][1] # "-" THEN FALSE
    ELSE IF tokens[i] \in {<<"-">>, <<"-", "-">>} THEN FALSE
    ELSE IF ~\E f \in Accepted : f.name = NameIn(tokens[i]) THEN FALSE
    ELSE IF TakesNext(tokens[i])
    THEN IF i = Len(tokens) THEN TRUE ELSE ValueMissing(tokens, i + 2)
    ELSE ValueMissing(tokens, i + 1)

\* C13: a value-taking flag that is the last token and has no value ends
\* the run with exit code 1 and the one error line "error: flag needs an
\* argument: <flag>" naming that flag; the command body is not entered.
C13_MissingFlagValue ==
    (/\ d_st # <<>>
     /\ d_st.flagsParsed
     /\ ValueMissing(d_st.remaining, 1)
     /\ IntValuesValid(d_st.remaining, Len(d_st.remaining) + 1))
    => LET last == d_st.remaining[Len(d_st.remaining)]
       IN  /\ d_pc = "returned"
           /\ d_exit = ExitUserError
           /\ Len(d_err) = 1
           /\ d_err[1].format = "error: flag needs an argument: %s"
           /\ d_err[1].args[1] \in {last, <<"-">> \o NameIn(last), NameIn(last)}
           /\ d_st.runs = <<>>

\* The references of the invocation, as the command parses its arguments
CmdRefs ==
    IF c_in.cmd = "done"
    THEN LET r == ParseTaskRef(c_in.args)
         IN  IF r.err = Nil THEN <<r.ref>> ELSE <<>>
    ELSE LET r == ParseTaskRefs(c_in.args)
         IN  IF r.err = Nil THEN r.refs ELSE <<>>

\* The references pass the checks made before the task source is called.
RefsValid ==
    /\ CmdRefs # <<>>
    /\ ~(c_in.listName # <<>> /\ AnyLetter(CmdRefs))
    /\ \A i \in 1..Len(CmdRefs) : CmdRefs[i].TaskNum >= 1

\* The list a reference targets in the task source the invocation started on
TargetOf(ref) ==
    IF c_in.listName # <<>> THEN ResolveList(RmLists, c_in.listName).list
    ELSE IF ref.HasLetter
    THEN LET m == BuildListLetterMap(RmLists, RmTasks, 0)
         IN  IF m.err = Nil /\ ref.Letter \in DOMAIN m.byLetter
             THEN m.byLetter[ref.Letter]
             ELSE ZeroList
    ELSE DefaultList(RmLists)

OpenCount(list) == Len(OpenTasks(RmTasks, list.ID))

Beyond(ref) ==
    /\ TargetOf(ref) # ZeroList
    /\ ref.TaskNum > OpenCount(TargetOf(ref))

Within(ref) ==
    /\ TargetOf(ref) # ZeroList
    /\ ref.TaskNum <= OpenCount(TargetOf(ref))

\* The first reference whose number is beyond the open tasks of its list,
\* every reference before it being within its list; 0 when there is none.
FirstBeyond ==
    LET hits == {i \in 1..Len(CmdRefs) :
                    /\ Beyond(CmdRefs[i])
                    /\ \A j \in 1..(i - 1) : Within(CmdRefs[j])}
    IN  IF RefsValid /\ hits # {} THEN CHOOSE i \in hits : TRUE ELSE 0

NoCallFailed == \A i \in 1..Len(c_calls) : c_calls[i].ok

Mutations ==
    {i \in 1..Len(c_calls) : c_calls[i].op \in {"CompleteTask", "DeleteTask"}}

OutOfRangeLine(num) == Line("error: task number out of range: %d", <<num>>)

\* C14: done and rm given a valid number N greater than the number of open
\* tasks of the target list end with the line "error: task number out of
\* range: N" and exit code 1, whether the page that would hold N is empty or
\* shorter than the index of N, and without a CompleteTask or DeleteTask call
\* (the task source answering every call).
C14_OutOfRange ==
    (c_pc \in {"returned", "panicked"} /\ FirstBeyond > 0 /\ NoCallFailed)
        => /\ c_pc = "returned"
           /\ c_err = <<OutOfRangeLine(CmdRefs[FirstBeyond].TaskNum)>>
           /\ c_out = <<>>
           /\ c_exit = ExitUserError
           /\ Mutations = {}
           /\ svc_tasks = RmTasks

\* The page that would hold the number is short of it, not empty.
ShortPage(ref) ==
    LET page == ListOpenTasks(RmTasks, TargetOf(ref).ID, PageOf(ref.TaskNum))
    IN  page # <<>> /\ GoMod(ref.TaskNum - 1, pageSize) >= Len(page)

C14_Witness ==
    /\ c_pc = "returned"
    /\ c_in.cmd = "done"
    /\ FirstBeyond > 0
    /\ NoCallFailed
    /\ ShortPage(CmdRefs[FirstBeyond])
    /\ c_exit = ExitUserError

\* The place in the stored list of its n-th open task
PlaceOfOpen(stored, n) ==
    CHOOSE i \in 1..Len(stored) :
        /\ IsOpen(stored[i])
        /\ Cardinality({j \in 1..i : IsOpen(stored[j])}) = n

\* The tasks of the task source after the n-th open task of the list is
\* completed and nothing else is touched
WithCompleted(tasks, listID, n) ==
    [tasks EXCEPT ![listID][PlaceOfOpen(tasks[listID], n)].Status = "completed"]

LetterDone ==
    /\ c_in.cmd = "done"
    /\ RefsValid
    /\ CmdRefs[1].HasLetter

\* C15: done <letter><n> completes exactly the n-th open task, in provider
\* order, of the list the letter map assigns the letter; every task of every
\* other list and every other task of that list stay as they were (and are
\* untouched when the run fails).
C15_DoneByLetter ==
    LetterDone =>
        LET ref == CmdRefs[1]
            after == WithCompleted(RmTasks, TargetOf(ref).ID, ref.TaskNum)
        IN  /\ svc_lists = RmLists
            /\ svc_tasks # RmTasks => (Within(ref) /\ svc_tasks = after)
            /\ (c_pc \in {"returned", "panicked"} /\ NoCallFailed /\ Within(ref))
                  => (c_pc = "returned" /\ c_exit = ExitSuccess
                      /\ svc_tasks = after)
            /\ c_exit = ExitSuccess => (Within(ref) /\ svc_tasks = after)

C15_Witness ==
    /\ LetterDone
    /\ c_pc = "returned"
    /\ c_exit = ExitSuccess
    /\ CmdRefs[1].Letter = 98
    /\ svc_tasks[3] = <<DoneTask(1), DoneTask(2)>>
    /\ svc_tasks[1] = RmTasks[1]

\* The keys of a command: its name and its aliases
KeysOf(c) == {c.name} \cup Range(c.aliases)

\* The registry as the i-th Register call left it
RegistryAfter(i) == IF i < Len(r_log) THEN r_log[i + 1].before ELSE r_cmds

\* The Register calls that succeeded with the key among the command's keys
Registrants(key) ==
    {i \in 1..Len(r_log) : r_log[i].ok /\ key \in KeysOf(r_log[i].cmd)}

\* C16: after any sequence of Register calls every key maps to the command
\* that first registered it; Register fails exactly when the name or an alias
\* of the command is already a key, and a failed Register adds no key; every
\* registered command is found under its name and each alias, and under no
\* other spelling.
C16_RegistryUnique ==
    /\ \A i \in 1..Len(r_log) :
          LET c == r_log[i].cmd
              before == r_log[i].before
              after == RegistryAfter(i)
          IN  /\ r_log[i].ok <=> KeysOf(c) \cap DOMAIN before = {}
              /\ ~r_log[i].ok => after = before
              /\ r_log[i].ok =>
                    /\ DOMAIN after = DOMAIN before \cup KeysOf(c)
                    /\ \A key \in DOMAIN before : after[key] = before[key]
                    /\ \A key \in KeysOf(c) :
                          Find(r_cmds, key) = [cmd |-> c, ok |-> TRUE]
    /\ \A key \in DOMAIN r_cmds :
          /\ Cardinality(Registrants(key)) = 1
          /\ \A i \in Registrants(key) : r_cmds[key] = r_log[i].cmd
    /\ \A key \in RegKeys : Find(r_cmds, key).ok <=> Registrants(key) # {}
    /\ r_find # <<>> =>
          (r_find.res.ok =>
              \E i \in Registrants(r_find.name) : r_find.res.cmd = r_log[i].cmd)

\* A second command with a free name and a taken second alias was refused, its
\* name and its free first alias stayed out, and the first command is found
\* under its name but not under the same name in another case.
C16_Witness ==
    /\ Len(r_log) = 2
    /\ r_log[1].ok
    /\ r_log[1].cmd.name = <<"r", "m">>
    /\ ~r_log[2].ok
    /\ r_log[2].cmd.name = <<"l", "s">>
    /\ r_log[2].cmd.aliases = <<<<"R", "m">>, <<"r", "m">>>>
    /\ DOMAIN r_cmds = {<<"r", "m">>}
    /\ r_find # <<>>
    /\ r_find.name = <<"R", "m">>
    /\ ~r_find.res.ok

\* Page 1 of the open tasks of a list: at most 100, in provider order
FirstPage(listID) ==
    LET open == SelectSeq(svc_tasks[listID], NotCompleted)
    IN  SubSeq(open, 1, Min(Len(open), pageSize))

\* The named lists before place i of the provider order that have open tasks
ShownBefore(i) ==
    {j \in 1..(i - 1) :
        ~svc_lists[j].IsDefault /\ FirstPage(svc_lists[j].ID) # <<>>}

\* The lines of the all-lists view for the default list and for the named
\* lists before place i: line k of the default list, then for each shown list
\* its three header lines and its task lines under the next letter.
RECURSIVE LinesBefore(_)
LinesBefore(i) ==
    IF i = 0
    THEN LET tasks == FirstPage(DefaultList(svc_lists).ID)
         IN  [k \in 1..Len(tasks) |->
                 [format |-> "%4d  %s", args |-> <<k, tasks[k]>>]]
    ELSE IF i \in ShownBefore(i + 1)
    THEN LET tasks == FirstPage(svc_lists[i].ID)
             letter == 97 + Cardinality(ShownBefore(i))
         IN  LinesBefore(i - 1)
             \o <<[format |-> "------------", args |-> <<>>],
                  [format |-> "%s", args |-> <<svc_lists[i].Title>>],
                  [format |-> "------------", args |-> <<>>]>>
             \o [k \in 1..Len(tasks) |->
                    [format |-> "    %4s  %s",
                     args |-> <<letter, k, tasks[k]>>]]
    ELSE LinesBefore(i - 1)

\* The all-lists view ended on the failed fetch of a named list.
SectionFetchFailed ==
    /\ c_in.cmd = "list"
    /\ c_err # <<>>
    /\ c_err[1].format = "error: failed to fetch list: %s: %v"

\* The place in the provider order of the list of the last call
LastFetched ==
    CHOOSE i \in 1..Len(svc_lists) :
        svc_lists[i].ID = c_calls[Len(c_calls)].list

PartialListing ==
    SectionFetchFailed =>
        LET last == c_calls[Len(c_calls)]
        IN  /\ c_pc = "returned"
            /\ c_exit = ExitBackendError
            /\ Len(c_err) = 1
            /\ c_err[1].args = <<svc_lists[LastFetched].Title, ErrBackend>>
            /\ last.op = "ListOpenTasks" /\ ~last.ok
            /\ ~svc_lists[LastFetched].IsDefault
            /\ \A k \in 1..(Len(c_calls) - 1) : c_calls[k].ok
            /\ c_out = LinesBefore(LastFetched - 1)
            /\ \A j \in (LastFetched + 1)..Len(svc_lists) :
                  ~svc_lists[j].IsDefault =>
                      \A k \in 1..Len(c_calls) :
                          ~(c_calls[k].op = "ListOpenTasks"
                            /\ c_calls[k].list = svc_lists[j].ID)

\* C17: when the fetch of the open tasks of a named list fails in the
\* all-lists view, standard output holds the tasks of the default list and
\* the sections of the earlier named lists that have open tasks, in provider
\* order; the one error line is written after that output (nothing is written
\* to standard output with or after it), the exit code is 3, and no list
\* after the failed one is fetched.
C17_PartialListing ==
    /\ []PartialListing
    /\ [][(c_err' # c_err \/ c_err # <<>>) => c_out' = c_out]_vars

\* The fetch of the last of three named lists with open tasks failed, with an
\* empty list among the earlier ones.
C17_Witness ==
    /\ SectionFetchFailed
    /\ LastFetched = 6
    /\ Cardinality(ShownBefore(LastFetched)) = 2
    /\ Len(c_out) > 8

\* The call failed in the task source: a timeout, a network or a provider
\* error (and not a name that matches no list or several).
BackendFailure(c) ==
    /\ ~c.ok
    /\ c.err \in {ErrBackend, ErrProviderNotFound}

\* C18: a backend failure is terminal: when a call of the task source fails
\* with a backend failure the invocation ends with exit code 3 and no call
\* of the task source follows the failed one.
C18_BackendFailureTerminal ==
    \A i \in 1..Len(c_calls) :
        BackendFailure(c_calls[i]) =>
            /\ i = Len(c_calls)
            /\ c_pc = "returned"
            /\ c_exit = ExitBackendError

\* The formats of the lines that begin with "error: "
ErrorFormats ==
    {"error: %s",
     "error: %v",
     "error: ambiguous list name: %s",
     "error: auth error: %s",
     "error: backend error: %s",
     "error: backend error: %v",
     "error: cancelled",
     "error: cannot use both --list and list letter",
     "error: could not bind to local port for OAuth callback",
     "error: failed to create config directory: %v",
     "error: failed to exchange code for token: %v",
     "error: failed to fetch list: %s: %v",
     "error: failed to read oauth_client.json: %v",
     "error: failed to save token: %v",
     "error: flag needs an argument: %s",
     "error: invalid oauth_client.json: %v",
     "error: invalid page number: %d",
     "error: list letter not found: %c",
     "error: list name required",
     "error: list not found: %s",
     "error: not logged in (run: gtask login)",
     "error: oauth callback timed out",
     "error: oauth_client.json not found in %s",
     "error: task number out of range: %d",
     "error: task reference required",
     "error: too many lists (max 26)",
     "error: unknown command: %s",
     "error: unknown flag: %s"}

BeginsWithError(line) == line.format \in ErrorFormats

\* C19: an invocation that ends with a non-zero exit code returns 1, 2 or 3
\* and has written exactly one line to the error stream, which begins with
\* "error: ".
C19_OneErrorLine ==
    (c_pc = "returned" /\ c_exit # ExitSuccess) =>
        /\ c_exit \in {ExitUserError, ExitAuthError, ExitBackendError}
        /\ Len(c_err) = 1
        /\ BeginsWithError(c_err[1])

\* C20: whenever the dispatcher enters a command body, the service it passes
\* is non-nil if the command needs authorization and nil if it does not.
C20_ServiceMatchesNeedsAuth ==
    d_st # <<>> =>
        \A i \in 1..Len(d_st.runs) :
            d_st.runs[i].svc # "nil" <=> d_st.cmd.needsAuth

\* C21: whenever the dispatcher fails to obtain the authenticated service for
\* a command that needs authorization, the invocation ends with exit code 2,
\* whatever error the service factory returned.
C21_AuthFailureExitCode ==
    (d_st # <<>> /\ d_st.cmd.needsAuth /\ AuthFailed)
        => (d_pc = "returned" /\ d_exit = ExitAuthError)

\* The token is a reference to an open task of the task source the invocation
\* started on, and that task is now completed.
TokenCompleted(token) ==
    LET parsed == ParseTaskRef(<<token>>)
        ref == parsed.ref
    IN  /\ parsed.err = Nil
        /\ ref.TaskNum >= 1
        /\ Within(ref)
        /\ LET stored == RmTasks[TargetOf(ref).ID]
           IN  svc_tasks[TargetOf(ref).ID][PlaceOfOpen(stored, ref.TaskNum)].Status
                   = "completed"

\* C22: done given several reference tokens completes every referenced task
\* or fails; it never exits 0 having ignored a supplied token.
C22_DoneEveryReference ==
    (c_in.cmd = "done" /\ c_pc = "returned" /\ c_exit = ExitSuccess)
        => \A i \in 1..Len(c_in.args) : TokenCompleted(c_in.args[i])

-----------------------------------------------------------------------------
(* The value of --list *)

\* The value the flag parser stored for --list or -l begins with -.
DashListValue ==
    /\ d_st # <<>>
    /\ d_st.flagsParsed
    /\ HasPrefixDash(d_st.vals.listName)

\* C23: when the value supplied to --list or -l begins with -, the run ends
\* with error: unknown flag: <value> and exit code 1, and no ResolveList
\* call carries that value as a list name.
C23_DashListValue ==
    DashListValue
        => /\ d_pc = "returned"
           /\ d_exit = ExitUserError
           /\ d_err = <<Line("error: unknown flag: %s",
                             <<d_st.vals.listName>>)>>
           /\ \A i \in 1..Len(c_calls) :
                 ~(c_calls[i].op = "ResolveList"
                     /\ c_calls[i].arg = d_st.vals.listName)

-----------------------------------------------------------------------------
(* Letters shown and letters accepted *)

\* The all-lists view finished.
ListedAll ==
    /\ c_in.cmd = "list"
    /\ c_in.args = <<>>
    /\ c_pc = "returned"
    /\ c_exit = ExitSuccess

\* The lines of standard output that show a task under a letter, and the
\* lines that hold the title of a section
LetterLines == {i \in 1..Len(c_out) : c_out[i].format = "    %4s  %s"}

TitleLines == {i \in 1..Len(c_out) : c_out[i].format = "%s"}

\* The title line of the section that line i belongs to
TitleLineOf(i) ==
    CHOOSE h \in TitleLines : h < i /\ \A g \in TitleLines : g < i => g <= h

\* The letters the view printed
LettersShown == {c_out[i].args[1] : i \in LetterLines}

\* What done and rm accept on the same task source, every call answering
Accepted24 == BuildListLetterMap(svc_lists, svc_tasks, 0)

-----------------------------------------------------------------------------
(* Lists created and deleted *)

\* createlist or addlist has read its name.
CreatesList == c_in.cmd \in {"createlist", "addlist"} /\ c_loc # <<>>

\* The lists, as the invocation found them, whose trimmed title is the
\* trimmed name up to case
Matching(name) ==
    {i \in 1..Len(ListCmdLists) :
        ToLower(TrimSpace(ListCmdLists[i].Title)) = ToLower(TrimSpace(name))}

CalledOp(op) == \E i \in 1..Len(c_calls) : c_calls[i].op = op

\* C25: createlist and addlist never call CreateList when one or more
\* existing lists match the given name, trimmed and up to case: the set of
\* lists is unchanged and, the task source answering, the run fails with
\* error: list already exists: <name> and exit code 1.
C25_ListAlreadyExists ==
    (CreatesList /\ Matching(c_loc.name) # {})
        => /\ ~CalledOp("CreateList")
           /\ svc_lists = ListCmdLists
           /\ (c_pc = "returned" /\ \A i \in 1..Len(c_calls) :
                                        ~BackendFailure(c_calls[i]))
                 => /\ c_exit = ExitUserError
                    /\ c_err = <<Line("error: list already exists: %s",
                                      <<c_loc.name>>)>>

\* rmlist has read its name.
RemovesList == c_in.cmd = "rmlist" /\ c_loc # <<>>

\* The list the name stands for among the lists as the invocation found them
Named26 == ResolveList(ListCmdLists, c_loc.name)

DeleteListCalls == {i \in 1..Len(c_calls) : c_calls[i].op = "DeleteList"}

NoBackendFailure == \A i \in 1..Len(c_calls) : ~BackendFailure(c_calls[i])

\* The run was refused: exit code 1 and the lists as they were.
Refused26 ==
    /\ c_exit = ExitUserError
    /\ svc_lists = ListCmdLists
    /\ svc_tasks = ListCmdTasks
    /\ DeleteListCalls = {}

\* C26: rmlist never calls DeleteList on the default list, and without
\* --force never on a list that has open tasks; in both cases the run ends
\* with exit code 1 and the lists unchanged (the task source answering).
\* With --force HasOpenTasks is not called and the named list, when it is
\* not the default list, is deleted.
C26_RmListGuards ==
    RemovesList
        => /\ \A i \in DeleteListCalls :
                 /\ c_calls[i].list # DefaultList(ListCmdLists).ID
                 /\ ~c_in.force
                       => ~HasOpenTasks(ListCmdTasks, c_calls[i].list)
           /\ (c_pc = "returned" /\ NoBackendFailure /\ Named26.err = Nil)
                 => /\ Named26.list.IsDefault => Refused26
                    /\ (/\ ~c_in.force
                        /\ ~Named26.list.IsDefault
                        /\ HasOpenTasks(ListCmdTasks, Named26.list.ID))
                           => Refused26
                    /\ (c_in.force /\ ~Named26.list.IsDefault)
                           => /\ ~CalledOp("HasOpenTasks")
                              /\ c_exit = ExitSuccess
                              /\ \A i \in 1..Len(svc_lists) :
                                    svc_lists[i] # Named26.list
                              /\ Len(svc_lists) = Len(ListCmdLists) - 1
                              /\ Named26.list.ID \notin DOMAIN svc_tasks
           /\ c_in.force => ~CalledOp("HasOpenTasks")

\* rmlist a without --force was refused after HasOpenTasks answered.
C26_Witness ==
    /\ RemovesList
    /\ ~c_in.force
    /\ c_pc = "returned"
    /\ Refused26
    /\ Named26.err = Nil
    /\ CalledOp("HasOpenTasks")

-----------------------------------------------------------------------------
(* rm with several references *)

DeleteCalls == SelectSeq(c_calls, LAMBDA c : c.op = "DeleteTask")

\* The letter of the reference is not in the letter map.
UnassignedLetter(ref) ==
    /\ ref.HasLetter
    /\ ref.Letter \notin DOMAIN BuildListLetterMap(RmLists, RmTasks, 0).byLetter

\* The reference names an unassigned letter or a number out of range.
Unresolvable(ref) ==
    \/ UnassignedLetter(ref)
    \/ ref.TaskNum < 1
    \/ Beyond(ref)

\* C27: rm makes no DeleteTask call unless every reference has been resolved
\* to a task; when any reference names an unassigned letter or a number out
\* of range the tasks of the task source stay unchanged and the command
\* exits 1 (the task source answering every call).
C27_AllOrNothing ==
    c_in.cmd = "rm"
        => /\ DeleteCalls # <<>>
                 => /\ RefsValid
                    /\ \A i \in 1..Len(CmdRefs) : Within(CmdRefs[i])
                    /\ c_loc.i = Len(c_loc.refs) + 1
           /\ (\E i \in 1..Len(CmdRefs) : Unresolvable(CmdRefs[i]))
                 => /\ svc_tasks = RmTasks
                    /\ DeleteCalls = <<>>
                    /\ (c_pc = "returned" /\ NoCallFailed)
                          => c_exit = ExitUserError

\* rm 1 a1 c1: the first two references were resolved, the third names a
\* letter no list has, and the run ended without a DeleteTask call.
C27_Witness ==
    /\ c_in.cmd = "rm"
    /\ c_pc = "returned"
    /\ Len(CmdRefs) = 3
    /\ Within(CmdRefs[1])
    /\ Within(CmdRefs[2])
    /\ TargetOf(CmdRefs[1]) # TargetOf(CmdRefs[2])
    /\ UnassignedLetter(CmdRefs[3])
    /\ Len(Fetches) = 2
    /\ NoCallFailed
    /\ c_exit = ExitUserError
    /\ svc_tasks = RmTasks

\* The (list, task) a reference stands for in the listing as it was before
\* the command started
Referenced(ref) ==
    LET list == TargetOf(ref)
    IN  [list |-> list.ID,
         task |-> OpenTasks(RmTasks, list.ID)[ref.TaskNum].ID]

\* The sequence without the later occurrences of its elements
RECURSIVE Distinct(_)
Distinct(seq) ==
    IF seq = <<>> THEN <<>>
    ELSE LET front == Distinct(SubSeq(seq, 1, Len(seq) - 1))
             last == seq[Len(seq)]
         IN  IF \E i \in 1..Len(front) : front[i] = last THEN front
             ELSE Append(front, last)

\* The tasks rm is to delete, in order of first reference
ToDelete == Distinct([i \in 1..Len(CmdRefs) |-> Referenced(CmdRefs[i])])

Deleted == [i \in 1..Len(DeleteCalls) |->
               [list |-> DeleteCalls[i].list, task |-> DeleteCalls[i].arg]]

\* The tasks of the task source without the tasks of gone, a set of
\* (list, task) pairs
Without(gone) ==
    [id \in DOMAIN RmTasks |->
        IF \E g \in gone : g.list = id
        THEN SelectSeq(RmTasks[id],
                       LAMBDA t : [list |-> id, task |-> t.ID] \notin gone)
        ELSE RmTasks[id]]

\* C28: rm with several references deletes exactly the distinct tasks at the
\* referenced positions of the listing as it was before the command
\* started: the DeleteTask calls are, in order of first reference and one
\* per (list, task), the tasks those positions held at the start, and the
\* task source loses those tasks and no other.
C28_DeletesReferenced ==
    (c_in.cmd = "rm" /\ DeleteCalls # <<>>)
        => LET toDelete == ToDelete
               deleted == Deleted
               done == IF DeleteCalls[Len(DeleteCalls)].ok
                       THEN Len(deleted) ELSE Len(deleted) - 1
           IN  /\ Len(deleted) <= Len(toDelete)
               /\ deleted = SubSeq(toDelete, 1, Len(deleted))
               /\ \A i \in 1..Len(DeleteCalls) :
                     DeleteCalls[i].ok \/ i = Len(DeleteCalls)
               /\ svc_tasks = Without({toDelete[k] : k \in 1..done})
               /\ (c_pc = "returned" /\ c_exit = ExitSuccess)
                     => deleted = toDelete

\* rm 2 1 2 deleted the second and the first open task of the default list,
\* once each: the second open task is stored third, and was not taken to be
\* the task that became second when the first was deleted.
C28_Witness ==
    /\ c_in.cmd = "rm"
    /\ c_pc = "returned"
    /\ c_exit = ExitSuccess
    /\ Len(CmdRefs) = 3
    /\ CmdRefs[1] = CmdRefs[3]
    /\ CmdRefs[1].TaskNum = 2
    /\ CmdRefs[2].TaskNum = 1
    /\ ~CmdRefs[1].HasLetter /\ ~CmdRefs[2].HasLetter
    /\ c_in.listName = <<>>
    /\ Deleted = <<[list |-> DefaultListID, task |-> 3],
                   [list |-> DefaultListID, task |-> 1]>>

-----------------------------------------------------------------------------
(* Validation before the task source *)

\* Among args a reference is malformed, a task number is below 1, or a list
\* letter comes together with --list.
Rejected(args) ==
    LET parsed == ParseTaskRefs(args)
    IN  IF parsed.err # Nil THEN parsed.err # ErrTaskRefRequired
        ELSE \/ \E i \in 1..Len(parsed.refs) : parsed.refs[i].TaskNum < 1
             \/ c_in.listName # <<>> /\ AnyLetter(parsed.refs)

\* The command has not called the task source and, once it has looked at its
\* arguments, has ended with exit code 1.
RejectedUntouched ==
    /\ c_calls = <<>>
    /\ svc_tasks = RmTasks
    /\ c_pc \in {"rm", "done"} \/ (c_pc = "returned" /\ c_exit = ExitUserError)

\* C29: done and rm validate before they touch the task source: when any
\* reference is malformed, any task number is below 1, or a list letter is
\* used together with --list, the command exits 1 without a call of the
\* task source.
C29_ValidateFirst ==
    (c_in.cmd \in {"rm", "done"} /\ Rejected(c_in.args)) => RejectedUntouched

\* The same of the arguments the command reads: all of them for rm, the
\* first for done.
ValidateFirstOfRead ==
    (/\ c_in.cmd \in {"rm", "done"}
     /\ Rejected(IF c_in.cmd = "rm" THEN c_in.args
                 ELSE SubSeq(c_in.args, 1, Min(1, Len(c_in.args)))))
        => RejectedUntouched

-----------------------------------------------------------------------------
(* Numbers displayed and numbers resolved *)

\* list <name> --page p has printed its page.
ListedOne ==
    /\ c_in.cmd = "list"
    /\ c_in.args # <<>>
    /\ c_pc = "returned"
    /\ c_exit = ExitSuccess

\* The lines of the page after the three lines of its header
TaskLines == SubSeq(c_out, 4, Len(c_out))

\* C30: every task shown at offset i (from 0) of list --page p is shown
\* under the number (p-1)*100 + i + 1, and the task locator given that
\* number on the same task source fetches page p, indexes it at i and returns
\* that same task.
C30_NumberRoundTrip ==
    ListedOne
        => LET list == ResolveList(svc_lists, Join(c_in.args)).list
               p == c_in.page
           IN  \A k \in 1..Len(TaskLines) :
                  LET i == k - 1
                      num == TaskLines[k].args[1]
                      shown == TaskLines[k].args[2]
                      found == findTaskByNumber(svc_tasks, list.ID, num, FALSE)
                  IN  /\ TaskLines[k].format = "    %4d  %s"
                      /\ num = (p - 1) * 100 + i + 1
                      /\ PageOf(num) = p
                      /\ GoMod(num - 1, pageSize) = i
                      /\ found.err = Nil
                      /\ ~found.panic
                      /\ found.task = shown

\* list a --page 2 on a list of 101 open tasks showed the last one, stored
\* after a completed task as the 102nd, under the number 101.
C30_Witness ==
    /\ ListedOne
    /\ c_in.page = 2
    /\ Len(TaskLines) = 1
    /\ TaskLines[1].args = <<pageSize + 1, OpenTask(pageSize + 2)>>

=============================================================================
